---- MODULE Spec2Model ----
(***************************************************************************)
(* Model of the go-rag document pipeline: the diff engine, the store       *)
(* synchronizer and the document status of services/embed/service.go, the  *)
(* callers in internal/documents/service.go and the embedding worker pool. *)
(*                                                                         *)
(* The specifications of the module:                                       *)
(*   Spec            documents, ProcessDocument runs and the two stores    *)
(*   FairSpec        Spec with weak fairness on every step of a run        *)
(*   PoolSpec        one embedChunks call with its workers and channels    *)
(*   LoadSpec        embedChunks on batches up to more chunks than workers *)
(*   FairLoadSpec    LoadSpec with weak fairness on the steps of the pool  *)
(*   DiffSpec        the diff of ProcessDocument applied to bounded inputs *)
(*   SeqSpec         Spec with the runs of a document one after another    *)
(*   IsoSpec         two documents whose runs interleave                   *)
(*   DeleteSpec      Spec with DeleteDocument and DeleteDocumentVectors    *)
(*   ChunkerSpec     splitSectionByWords and chunkCodeFile at word level   *)
(*   MarkdownSpec    ChunkMarkdown on the top-level blocks of a document   *)
(*   CollectionSpec  EnsureCollectionExists and the collection             *)
(*                                                                         *)
(* A document's content is a sequence of text tokens.  The structure-aware *)
(* chunker yields one chunk per token (each token stands for one section   *)
(* of at most maxWordsPerChunk words); the fallback chunker yields one     *)
(* chunk holding the whole content.  SHA-256 is modelled as an injective   *)
(* tagging of the content, the embedding service as a deterministic        *)
(* function of the request text.                                           *)
(***************************************************************************)
EXTENDS Integers, Sequences, FiniteSets, TLC

\* ---------------------------------------------------------------- bounds
MaxChunks == 2
MaxRuns == 2
MaxBatch == 2

Texts == {"a", "b"}
DocIds == {1}
Names == {"notes.md", "main.go"}
ProjectIds == {7}
RunIds == 1..MaxRuns

\* services/embed/service.go:282
numWorkers == 10

VARIABLES
    documents,  \* relational store: document id -> [name, content, status, project]
    chunks,     \* relational store: the committed chunk rows
    nextId,     \* relational store: next value of the chunk id sequence
    points,     \* vector index: the points of collection CollectionName
    runs,       \* one record per ProcessDocument goroutine
    pool,       \* state of one embedChunks call (PoolSpec)
    diff,       \* inputs and outputs of one diff computation (DiffSpec)
    deleter,    \* the DeleteDocument request being served (DeleteSpec)
    chunker,    \* input and output of one chunker call (ChunkerSpec)
    collection  \* the vector-index collection and the EnsureCollectionExists calls

vars == <<documents, chunks, nextId, points, runs, pool, diff, deleter, chunker, collection>>

\* The variables the pipeline of ProcessDocument leaves alone.
rest == <<deleter, chunker, collection>>

\* ------------------------------------------------------------ sequences
BoundedSeq(S, n) == UNION {[1..k -> S] : k \in 0..n}

Range(s) == {s[i] : i \in DOMAIN s}

Contents == BoundedSeq(Texts, MaxChunks)

\* ------------------------------------------------------------- chunker
getContentHash(content) == <<"sha256">> \o content

MkChunk(content) == [Content |-> content, ContentHash |-> getContentHash(content)]

\* One section per token, each within the word limit: one chunk per section.
ChunkMarkdown(content) == [i \in 1..Len(content) |-> MkChunk(<<content[i]>>)]

\* Text at word level is a sequence of tokens: a token is a word or one
\* whitespace character.
WhiteSpace == {" ", "\n"}

\* strings.Fields: the words, in order.
Fields(s) == SelectSeq(s, LAMBDA t : t \notin WhiteSpace)

\* strings.TrimSpace: the text without its leading and trailing whitespace.
TrimSpace(s) ==
    LET RECURSIVE first(_)
        first(i) == IF i > Len(s) \/ s[i] \notin WhiteSpace THEN i ELSE first(i + 1)
        RECURSIVE last(_)
        last(j) == IF j < 1 \/ s[j] \notin WhiteSpace THEN j ELSE last(j - 1)
    IN SubSeq(s, first(1), last(Len(s)))

\* part_012:28
maxWordsPerChunk == 256

\* Fault: a chunk is closed one word late.
ChunkIsFullOneLate(currentWordCount) == currentWordCount > maxWordsPerChunk

\* Line 92.
ChunkIsFull(currentWordCount) == currentWordCount >= maxWordsPerChunk

\* The buffer after the loop body has run for words[i..j]: each word followed
\* by a blank (lines 88-89).
Written(words, i, j) ==
    [k \in 1..(2 * (j - i + 1)) |-> IF k % 2 = 1 THEN words[i + (k - 1) \div 2] ELSE " "]

\* Lines 87-110, from word i on with an empty buffer: the loop writes words
\* until the word count is full or the words end, and the buffer is emitted as
\* a chunk (lines 93-100 in the loop, lines 103-110 for the last, partial one).
RECURSIVE PackWords(_, _, _)
PackWords(words, i, finalChunks) ==
    IF i > Len(words)
    THEN finalChunks
    ELSE LET left == Len(words) - i + 1
             fullAt == {c \in 1..left : ChunkIsFull(c) /\ ~ChunkIsFull(c - 1)}
             currentWordCount == IF fullAt = {} THEN left ELSE CHOOSE c \in fullAt : TRUE
             content == TrimSpace(Written(words, i, i + currentWordCount - 1))
         IN PackWords(words, i + currentWordCount, Append(finalChunks, MkChunk(content)))

\* Lines 69-113 (the headings label of a chunk is not part of the model).
splitSectionByWords(section) ==
    LET words == Fields(section)
    IN IF Len(words) = 0 THEN <<>>
       ELSE IF Len(words) <= maxWordsPerChunk THEN <<MkChunk(TrimSpace(section))>>
       ELSE PackWords(words, 1, <<>>)

\* Fault: the content is hashed and stored untrimmed.
chunkCodeFileUntrimmed(content) == <<MkChunk(content)>>

\* Lines 116-122.
chunkCodeFile(content) == <<MkChunk(TrimSpace(content))>>

HasSuffixMd(name) == name \in {"notes.md"}

NewChunks(name, content) ==
    IF HasSuffixMd(name) THEN ChunkMarkdown(content) ELSE chunkCodeFile(content)

\* The embedding service: request text in, vector out.
GetEmbedding(text) == <<"vec">> \o text

\* --------------------------------------------------------- diff engine
Hashes(cs) == {cs[i].ContentHash : i \in DOMAIN cs}

\* existingChunks[c.ContentHash] = c for each fetched row in order: the last
\* row of a hash wins.
ExistingChunks(prior) ==
    [h \in {prior[i].content_hash : i \in DOMAIN prior} |->
        LET last == CHOOSE i \in DOMAIN prior :
                        /\ prior[i].content_hash = h
                        /\ \A j \in DOMAIN prior : prior[j].content_hash = h => j <= i
        IN prior[last]]

Restrict(f, S) == [x \in S |-> f[x]]

RECURSIVE DiffLoop(_, _, _, _, _)
DiffLoop(newChunks, i, existingChunks, chunksToEmbed, chunksToDelete) ==
    IF i > Len(newChunks)
    THEN [toEmbed |-> chunksToEmbed, toDelete |-> chunksToDelete]
    ELSE IF newChunks[i].ContentHash \in DOMAIN existingChunks
         THEN DiffLoop(newChunks, i + 1, existingChunks, chunksToEmbed,
                       Restrict(chunksToDelete,
                                DOMAIN chunksToDelete \ {newChunks[i].ContentHash}))
         ELSE DiffLoop(newChunks, i + 1, existingChunks,
                       Append(chunksToEmbed, newChunks[i]), chunksToDelete)

\* Fault: a diff keyed by ordinal position instead of content hash.
DiffPositional(newChunks, existingChunks) ==
    LET rowAt(i) == {h \in DOMAIN existingChunks : existingChunks[h].index = i - 1}
        same(i) == newChunks[i].ContentHash \in rowAt(i)
        keep == {newChunks[i].ContentHash : i \in {j \in DOMAIN newChunks : same(j)}}
    IN [toEmbed |-> SelectSeq(newChunks, LAMBDA c : c.ContentHash \notin keep),
        toDelete |-> Restrict(existingChunks, DOMAIN existingChunks \ keep)]

\* Fault: a diff that embeds a repeated new chunk only once.
DiffDedup(newChunks, existingChunks) ==
    LET first(i) == \A j \in 1..(i - 1) : newChunks[j].ContentHash # newChunks[i].ContentHash
        idx == {i \in DOMAIN newChunks :
                    first(i) /\ newChunks[i].ContentHash \notin DOMAIN existingChunks}
        RECURSIVE pick(_)
        pick(i) == IF i > Len(newChunks) THEN <<>>
                   ELSE IF i \in idx THEN <<newChunks[i]>> \o pick(i + 1) ELSE pick(i + 1)
    IN [toEmbed |-> pick(1),
        toDelete |-> Restrict(existingChunks, DOMAIN existingChunks \ Hashes(newChunks))]

\* Lines 59-92: the diff of the new chunk sequence against existingChunks.
Diff(newChunks, existingChunks) ==
    DiffLoop(newChunks, 1, existingChunks, <<>>, existingChunks)


\* -------------------------------------------------------- vector index
PointIds(ps) == {p.id : p \in ps}

\* Delete with a list of point ids.
DeletePoints(ps, ids) == {p \in ps : p.id \notin ids}

\* Upsert: a point replaces the stored point of the same id.
UpsertPoints(ps, new) == {p \in ps : p.id \notin PointIds(Range(new))} \cup Range(new)

Owner(project) == <<"user", project>>

\* Fault: the point is keyed by the chunk's ordinal index, not by its row id.
MkPointKeyedByIndex(c, vector, ownerID, doc) ==
    [id |-> c.index, vector |-> vector,
     payload |-> [user_id |-> ownerID, project_id |-> doc.project,
                  document_id |-> doc.id, chunk_id |-> c.index]]

\* Lines 244-253: the point of the inserted row c.
MkPoint(c, vector, ownerID, doc) ==
    [id |-> c.id, vector |-> vector,
     payload |-> [user_id |-> ownerID, project_id |-> doc.project,
                  document_id |-> doc.id, chunk_id |-> c.id]]

\* ----------------------------------------------------- ProcessDocument
NoMap == <<>>

IdleRun ==
    [pc |-> "idle", doc |-> [id |-> 0, project |-> 0], ownerID |-> <<>>,
     prior |-> {}, existing |-> NoMap, newChunks |-> <<>>,
     toEmbed |-> <<>>, toDelete |-> NoMap, vectors |-> <<>>,
     txOpen |-> FALSE, txDel |-> {}, txIns |-> <<>>, upserts |-> <<>>,
     ops |-> <<>>, statusWrites |-> <<>>]

Op(name, ok) == [op |-> name, ok |-> ok]

Logged(run, name, ok) == [run EXCEPT !.ops = Append(@, Op(name, ok))]

\* Fault: the chunks are queried without the document's edge.
RowsOfAnyDocument(d) == chunks

\* doc.Edges.Chunks, document.ID(id).QueryChunks(): the rows of the document.
RowsOf(d) == {c \in chunks : c.document = d}

ChunkRowIds(d) == {c.id : c \in RowsOf(d)}

\* The query of the document's chunks has no ORDER BY: the rows arrive in any
\* order, and existingChunks keeps the last row of each hash.  The maps the loop
\* of lines 60-63 can build are the selections of one fetched row per hash.
PossibleExisting(rows) ==
    LET hs == {c.content_hash : c \in rows}
    IN {f \in [hs -> rows] : \A h \in hs : f[h].content_hash = h}

\* Fault: the transaction is committed before the points are upserted.
SyncStagesCommitFirst == <<"vdelete", "txbegin", "rowdelete", "insert", "commit", "upsert">>

\* The calls of syncDatabase in the order of lines 181-271.
SyncStages == <<"vdelete", "txbegin", "rowdelete", "insert", "upsert", "commit">>

\* Fault: the deletes are issued whether or not there is a row to delete.
StageEnabledDeletesUngated(run, s) ==
    CASE s = "vdelete" -> TRUE
      [] s = "txbegin" -> TRUE
      [] s = "rowdelete" -> TRUE
      [] s = "insert" -> Len(run.txIns) < Len(run.toEmbed)
      [] s = "upsert" -> Len(run.upserts) > 0
      [] s = "commit" -> TRUE

\* The conditions of the calls of syncDatabase.
StageEnabled(run, s) ==
    CASE s = "vdelete" -> DOMAIN run.toDelete # {}
      [] s = "txbegin" -> TRUE
      [] s = "rowdelete" -> DOMAIN run.toDelete # {}
      [] s = "insert" -> Len(run.txIns) < Len(run.toEmbed)
      [] s = "upsert" -> Len(run.upserts) > 0
      [] s = "commit" -> TRUE

\* The next call syncDatabase issues, from stage number k on.
NextStage(run, k) ==
    LET j == CHOOSE j \in k..Len(SyncStages) :
                 /\ StageEnabled(run, SyncStages[j])
                 /\ \A m \in k..(j - 1) : ~StageEnabled(run, SyncStages[m])
    IN SyncStages[j]

\* Lines 100-121: where the run goes once the diff is known.
AfterDiff(run) ==
    IF Len(run.toEmbed) > 0 \/ DOMAIN run.toDelete # {}
    THEN IF Len(run.toEmbed) > 0 THEN "embed" ELSE NextStage(run, 1)
    ELSE "finalize"

WriteStatus(run, s) == [run EXCEPT !.statusWrites = Append(@, s)]

\* UpdateOneID(id).SetStatus(s): no row is updated when the document is gone.
SetStatus(docs, d, s) ==
    IF d \in DOMAIN docs THEN [docs EXCEPT ![d].status = s] ELSE docs

\* Fault: the fetch error is logged and the run returns without a status write.
OnFetchErrorSilent(run) ==
    [Logged(run, "fetch", FALSE) EXCEPT !.pc = "done"]

\* Lines 51-55: the fetch failed.
OnFetchError(run) ==
    WriteStatus([Logged(run, "fetch", FALSE) EXCEPT !.pc = "done"], "failed")

\* Lines 44-97: the fetch succeeded; chunk the content and compute the diff.
OnFetched(run, doc, rows, existingChunks) ==
    LET newChunks == NewChunks(doc.name, doc.content)
        d == Diff(newChunks, existingChunks)
        fetched == [Logged(run, "fetch", TRUE) EXCEPT
                       !.doc = [id |-> run.doc.id, project |-> doc.project],
                       !.ownerID = Owner(doc.project),
                       !.prior = rows,
                       !.existing = existingChunks,
                       !.newChunks = newChunks,
                       !.toEmbed = d.toEmbed,
                       !.toDelete = d.toDelete]
    IN [fetched EXCEPT !.pc = AfterDiff(fetched)]

\* embedChunks as ProcessDocument sees it: the vectors in the order of the
\* chunks, or an error and no vectors when a call failed.
EmbedChunksResult(cs, failed) ==
    IF failed # {}
    THEN [vectors |-> <<>>, err |-> TRUE]
    ELSE [vectors |-> [i \in 1..Len(cs) |-> GetEmbedding(cs[i].Content)], err |-> FALSE]

\* Fault: failed is written but the return of line 108 is missing.
OnEmbedErrorNoReturn(run) ==
    LET r1 == WriteStatus(Logged(run, "embed", FALSE), "failed")
    IN [r1 EXCEPT !.pc = NextStage(r1, 1)]

\* Lines 105-109: embedChunks returned an error.
OnEmbedError(run) ==
    WriteStatus([Logged(run, "embed", FALSE) EXCEPT !.pc = "done"], "failed")

\* Lines 104, 110-114: the vectors are there, syncDatabase starts.
OnEmbedded(run, vectors) ==
    LET r1 == [Logged(run, "embed", TRUE) EXCEPT !.vectors = vectors]
    IN [r1 EXCEPT !.pc = NextStage(r1, 1)]

\* tx.Rollback(): the pending deletes and inserts are dropped.
Rollback(run) ==
    [Logged(run, "rollback", TRUE) EXCEPT !.txOpen = FALSE, !.txDel = {}, !.txIns = <<>>]

\* Fault: a failed upsert returns the error without tx.Rollback().
RollsBackRowWritesOnly(name) == name \in {"rowdelete", "rowinsert"}

\* Lines 223, 239 and 265: the failures that are followed by tx.Rollback().
RollsBack(name) == name \in {"rowdelete", "rowinsert", "upsert"}

\* Fault: the error of the vector-index delete is logged and the sync goes on.
OnSyncErrorDeleteIgnored(run, name) ==
    LET r1 == Logged(run, name, FALSE)
        r2 == IF RollsBack(name) THEN Rollback(r1) ELSE r1
    IN IF name = "vdelete"
       THEN [r1 EXCEPT !.pc = "txbegin"]
       ELSE WriteStatus([r2 EXCEPT !.pc = "done"], "failed")

\* Fault: failed is written but the return of line 117 is missing, so line 124
\* writes completed.
OnSyncErrorNoReturn(run, name) ==
    LET r1 == Logged(run, name, FALSE)
        r2 == IF RollsBack(name) THEN Rollback(r1) ELSE r1
    IN WriteStatus(WriteStatus([r2 EXCEPT !.pc = "done"], "failed"), "completed")

\* A step of syncDatabase failed: roll back where the code does, return the
\* error; lines 114-118 then write failed and return.
OnSyncError(run, name) ==
    LET r1 == Logged(run, name, FALSE)
        r2 == IF RollsBack(name) THEN Rollback(r1) ELSE r1
    IN WriteStatus([r2 EXCEPT !.pc = "done"], "failed")

\* A step of syncDatabase succeeded: go on with the next enabled stage.
Proceed(run, name, k) ==
    LET r1 == Logged(run, name, TRUE)
    IN [r1 EXCEPT !.pc = NextStage(r1, k)]

\* Line 124.
OnSynced(run) == WriteStatus([run EXCEPT !.pc = "done"], "completed")

\* Line 124, SaveX on a document that is gone: the update finds no row and
\* SaveX panics in the goroutine of the run.
OnSavePanic(run) == Logged([run EXCEPT !.pc = "panicked"], "save", FALSE)

\* A step of run r: the run's new record, and the status it wrote, if any.
Apply(r, newRun) ==
    /\ runs' = [runs EXCEPT ![r] = newRun]
    /\ documents' =
          IF Len(newRun.statusWrites) > Len(runs[r].statusWrites)
          THEN SetStatus(documents, newRun.doc.id,
                         newRun.statusWrites[Len(newRun.statusWrites)])
          ELSE documents

At(r, pc) == runs[r].pc = pc

FetchOk(r) ==
    /\ At(r, "fetch")
    /\ runs[r].doc.id \in DOMAIN documents
    /\ LET d == runs[r].doc.id
       IN \E existingChunks \in PossibleExisting(RowsOf(d)) :
              Apply(r, OnFetched(runs[r], documents[d], RowsOf(d), existingChunks))
    /\ UNCHANGED <<chunks, nextId, points, pool, diff, rest>>

FetchFail(r) ==
    /\ At(r, "fetch")
    /\ Apply(r, OnFetchError(runs[r]))
    /\ UNCHANGED <<chunks, nextId, points, pool, diff, rest>>

EmbedOk(r) ==
    /\ At(r, "embed")
    /\ Apply(r, OnEmbedded(runs[r], EmbedChunksResult(runs[r].toEmbed, {}).vectors))
    /\ UNCHANGED <<chunks, nextId, points, pool, diff, rest>>

EmbedFail(r) ==
    /\ At(r, "embed")
    /\ \E failed \in SUBSET (1..Len(runs[r].toEmbed)) :
          /\ EmbedChunksResult(runs[r].toEmbed, failed).err
          /\ Apply(r, OnEmbedError(runs[r]))
    /\ UNCHANGED <<chunks, nextId, points, pool, diff, rest>>

\* Fault: the sync deletes every prior row of the document, not only to-delete.
IdsToDeleteAllPrior(run) == {c.id : c \in run.prior}

\* Lines 182-188 and 217-220: the ids of the rows of chunksToDelete.
IdsToDelete(run) == {run.toDelete[h].id : h \in DOMAIN run.toDelete}

VectorDeleteOk(r) ==
    /\ At(r, "vdelete")
    /\ points' = DeletePoints(points, IdsToDelete(runs[r]))
    /\ Apply(r, Proceed(runs[r], "vdelete", 2))
    /\ UNCHANGED <<chunks, nextId, pool, diff, rest>>

VectorDeleteFail(r) ==
    /\ At(r, "vdelete")
    /\ Apply(r, OnSyncError(runs[r], "vdelete"))
    /\ UNCHANGED <<chunks, nextId, points, pool, diff, rest>>

TxBeginOk(r) ==
    /\ At(r, "txbegin")
    /\ Apply(r, Proceed([runs[r] EXCEPT !.txOpen = TRUE], "txbegin", 3))
    /\ UNCHANGED <<chunks, nextId, points, pool, diff, rest>>

TxBeginFail(r) ==
    /\ At(r, "txbegin")
    /\ Apply(r, OnSyncError(runs[r], "txbegin"))
    /\ UNCHANGED <<chunks, nextId, points, pool, diff, rest>>

RowDeleteOk(r) ==
    /\ At(r, "rowdelete")
    /\ Apply(r, Proceed([runs[r] EXCEPT !.txDel = IdsToDelete(runs[r])], "rowdelete", 4))
    /\ UNCHANGED <<chunks, nextId, points, pool, diff, rest>>

RowDeleteFail(r) ==
    /\ At(r, "rowdelete")
    /\ Apply(r, OnSyncError(runs[r], "rowdelete"))
    /\ UNCHANGED <<chunks, nextId, points, pool, diff, rest>>

\* Lines 231-254, one pass of the loop: the row of newChunks[i] and its point.
InsertChunk(run, id) ==
    LET i == Len(run.txIns)
        chunkData == run.toEmbed[i + 1]
        c == [id |-> id, index |-> i, content |-> chunkData.Content,
              content_hash |-> chunkData.ContentHash, document |-> run.doc.id]
    IN [run EXCEPT !.txIns = Append(@, c),
                   !.upserts = Append(@, MkPoint(c, run.vectors[i + 1], run.ownerID, run.doc))]

\* The row's document edge is a foreign key: the insert needs the document row.
RowInsertOk(r) ==
    /\ At(r, "insert")
    /\ runs[r].doc.id \in DOMAIN documents
    /\ nextId' = nextId + 1
    /\ Apply(r, Proceed(InsertChunk(runs[r], nextId), "rowinsert", 4))
    /\ UNCHANGED <<chunks, points, pool, diff, rest>>

RowInsertFail(r) ==
    /\ At(r, "insert")
    /\ Apply(r, OnSyncError(runs[r], "rowinsert"))
    /\ UNCHANGED <<chunks, nextId, points, pool, diff, rest>>

UpsertOk(r) ==
    /\ At(r, "upsert")
    /\ points' = UpsertPoints(points, runs[r].upserts)
    /\ Apply(r, Proceed(runs[r], "upsert", 6))
    /\ UNCHANGED <<chunks, nextId, pool, diff, rest>>

UpsertFail(r) ==
    /\ At(r, "upsert")
    /\ Apply(r, OnSyncError(runs[r], "upsert"))
    /\ UNCHANGED <<chunks, nextId, points, pool, diff, rest>>

\* tx.Commit(): the pending deletes and inserts become visible.
Committed(rows, run) == {c \in rows : c.id \notin run.txDel} \cup Range(run.txIns)

CommitOk(r) ==
    /\ At(r, "commit")
    /\ chunks' = Committed(chunks, runs[r])
    /\ Apply(r, [Logged(runs[r], "commit", TRUE) EXCEPT
                    !.pc = "finalize", !.txOpen = FALSE, !.txDel = {}, !.txIns = <<>>])
    /\ UNCHANGED <<nextId, points, pool, diff, rest>>

CommitFail(r) ==
    /\ At(r, "commit")
    /\ Apply(r, OnSyncError([runs[r] EXCEPT !.txOpen = FALSE, !.txDel = {}, !.txIns = <<>>],
                            "commit"))
    /\ UNCHANGED <<chunks, nextId, points, pool, diff, rest>>

Finalize(r) ==
    /\ At(r, "finalize")
    /\ Apply(r, IF runs[r].doc.id \in DOMAIN documents
                THEN OnSynced(runs[r])
                ELSE OnSavePanic(runs[r]))
    /\ UNCHANGED <<chunks, nextId, points, pool, diff, rest>>

RunStep(r) ==
    \/ FetchOk(r) \/ FetchFail(r)
    \/ EmbedOk(r) \/ EmbedFail(r)
    \/ VectorDeleteOk(r) \/ VectorDeleteFail(r)
    \/ TxBeginOk(r) \/ TxBeginFail(r)
    \/ RowDeleteOk(r) \/ RowDeleteFail(r)
    \/ RowInsertOk(r) \/ RowInsertFail(r)
    \/ UpsertOk(r) \/ UpsertFail(r)
    \/ CommitOk(r) \/ CommitFail(r)
    \/ Finalize(r)

\* ------------------------------------------------------------- callers
\* go s.EmbedService.ProcessDocument(context.Background(), id)
GoProcessDocument(rs, d) ==
    LET r == CHOOSE r \in DOMAIN rs : rs[r].pc = "idle" /\ \A q \in 1..(r - 1) : rs[q].pc # "idle"
    IN [rs EXCEPT ![r] = [IdleRun EXCEPT !.pc = "fetch", !.doc = [id |-> d, project |-> 0]]]

\* A goroutine of ProcessDocument for document d has started and not returned.
InFlight(d) == \E r \in DOMAIN runs : runs[r].doc.id = d /\ runs[r].pc \notin {"idle", "done"}

CanSpawn == \E r \in DOMAIN runs : runs[r].pc = "idle"

CreateDocument(d, name, content, project) ==
    /\ CanSpawn
    /\ d \notin DOMAIN documents
    /\ documents' = [x \in DOMAIN documents \cup {d} |->
                        IF x = d
                        THEN [name |-> name, content |-> content,
                              status |-> "uploaded", project |-> project]
                        ELSE documents[x]]
    /\ runs' = GoProcessDocument(runs, d)
    /\ UNCHANGED <<chunks, nextId, points, pool, diff, rest>>

\* A request that carries Content (Name is left nil).
UpdateDocument(d, content) ==
    /\ CanSpawn
    /\ d \in DOMAIN documents
    /\ documents' = [documents EXCEPT ![d].content = content]
    /\ runs' = GoProcessDocument(runs, d)
    /\ UNCHANGED <<chunks, nextId, points, pool, diff, rest>>

PoolIdle == [pc |-> "off"]
DiffIdle == [pc |-> "off"]
\* No DeleteDocument request, no chunker call under test, no collection call.
Off == [pc |-> "off"]

RestIdle ==
    /\ deleter = Off
    /\ chunker = Off
    /\ collection = Off

Init ==
    /\ documents = <<>>
    /\ chunks = {}
    /\ nextId = 1
    /\ points = {}
    /\ runs = [r \in RunIds |-> IdleRun]
    /\ pool = PoolIdle
    /\ diff = DiffIdle
    /\ RestIdle

Next ==
    \/ \E d \in DocIds, name \in Names, content \in Contents, project \in ProjectIds :
          CreateDocument(d, name, content, project)
    \/ \E d \in DocIds, content \in Contents : UpdateDocument(d, content)
    \/ \E r \in RunIds : RunStep(r)

Spec == Init /\ [][Next]_vars

FairSpec == Spec /\ \A r \in RunIds : WF_vars(RunStep(r))

\* ========================================================== PoolSpec
\* One call of embedChunks: the orchestrator, the job and result channels and
\* the numWorkers goroutines of embeddingWorker.
Workers == 1..numWorkers

\* Fault: the channels are made as deep as the pool is wide.
CapacityOfPool(numJobs) == numWorkers

\* Lines 280-281: make(chan embeddingJob, numJobs), make(chan embeddingResult,
\* numJobs): the depth of the job channel and of the result channel.
Capacity(numJobs) == numJobs

NilVector == <<>>

NoJob == [Index |-> -1, Chunk |-> MkChunk(<<>>)]

NoResult == [Index |-> -1, Vector |-> NilVector, Err |-> FALSE]

Batches == BoundedSeq({MkChunk(<<t>>) : t \in Texts}, MaxBatch)

PoolStart(cs) ==
    [pc |-> "start", chunks |-> cs, numJobs |-> Len(cs),
     jobs |-> <<>>, jobsClosed |-> FALSE,
     results |-> <<>>, resultsClosed |-> FALSE,
     worker |-> [w \in Workers |-> [pc |-> "off", job |-> NoJob, res |-> NoResult]],
     wg |-> 0, next |-> 0,
     finalVectors |-> <<>>, ret |-> [vectors |-> NilVector, err |-> FALSE],
     calls |-> <<>>, failed |-> {}, order |-> <<>>, issued |-> <<>>, seen |-> <<>>]

\* Fault: one worker is started per job instead of numWorkers workers.
PoolBeginWorkerPerJob ==
    /\ pool.pc = "start"
    /\ pool' = IF pool.numJobs = 0
               THEN [pool EXCEPT !.pc = "done", !.ret = [vectors |-> NilVector, err |-> FALSE]]
               ELSE [pool EXCEPT !.pc = "enqueue",
                        !.worker = [w \in 1..pool.numJobs |->
                                       [pc |-> "recv", job |-> NoJob, res |-> NoResult]],
                        !.wg = pool.numJobs,
                        !.calls = [i \in 0..(pool.numJobs - 1) |-> 0],
                        !.issued = [i \in 0..(pool.numJobs - 1) |-> 0],
                        !.seen = [i \in 0..(pool.numJobs - 1) |-> {}]]
    /\ UNCHANGED <<documents, chunks, nextId, points, runs, diff, rest>>

\* Lines 276-288: return at once for an empty batch, else make the channels and
\* start the workers.
PoolBegin ==
    /\ pool.pc = "start"
    /\ pool' = IF pool.numJobs = 0
               THEN [pool EXCEPT !.pc = "done", !.ret = [vectors |-> NilVector, err |-> FALSE]]
               ELSE [pool EXCEPT !.pc = "enqueue",
                        !.worker = [w \in Workers |->
                                       [pc |-> "recv", job |-> NoJob, res |-> NoResult]],
                        !.wg = numWorkers,
                        !.calls = [i \in 0..(pool.numJobs - 1) |-> 0],
                        !.issued = [i \in 0..(pool.numJobs - 1) |-> 0],
                        !.seen = [i \in 0..(pool.numJobs - 1) |-> {}]]
    /\ UNCHANGED <<documents, chunks, nextId, points, runs, diff, rest>>

\* Lines 290-292: jobs <- embeddingJob{Index: i, Chunk: chunk}; the send waits
\* while the channel is full.
PoolEnqueue ==
    /\ pool.pc = "enqueue"
    /\ pool.next < pool.numJobs
    /\ Len(pool.jobs) < Capacity(pool.numJobs)
    /\ pool' = [pool EXCEPT
                   !.jobs = Append(@, [Index |-> pool.next, Chunk |-> pool.chunks[pool.next + 1]]),
                   !.next = @ + 1]
    /\ UNCHANGED <<documents, chunks, nextId, points, runs, diff, rest>>

\* Line 293: close(jobs).
PoolCloseJobs ==
    /\ pool.pc = "enqueue"
    /\ pool.next = pool.numJobs
    /\ pool' = [pool EXCEPT !.jobsClosed = TRUE, !.pc = "wait"]
    /\ UNCHANGED <<documents, chunks, nextId, points, runs, diff, rest>>

\* The workers run the same code and carry no identity: of the workers waiting
\* on the job channel, the lowest-numbered one stands for whichever the runtime
\* wakes.
FirstWaiting(w) ==
    /\ pool.worker[w].pc = "recv"
    /\ \A v \in 1..(w - 1) : pool.worker[v].pc # "recv"

\* Lines 311-313: the worker takes the next job and calls GetEmbedding with
\* its text.
WorkerRecv(w) ==
    /\ FirstWaiting(w)
    /\ Len(pool.jobs) > 0
    /\ pool' = [pool EXCEPT !.jobs = Tail(@),
                            !.worker[w] = [@ EXCEPT !.pc = "call", !.job = Head(pool.jobs)],
                            !.issued[Head(pool.jobs).Index] = @ + 1,
                            !.seen[Head(pool.jobs).Index] = pool.failed]
    /\ UNCHANGED <<documents, chunks, nextId, points, runs, diff, rest>>

\* Lines 310-311: the channel is closed and empty; the loop ends, wg.Done().
WorkerExit(w) ==
    /\ FirstWaiting(w)
    /\ Len(pool.jobs) = 0
    /\ pool.jobsClosed
    /\ pool' = [pool EXCEPT !.worker[w] = [@ EXCEPT !.pc = "exit"], !.wg = @ - 1]
    /\ UNCHANGED <<documents, chunks, nextId, points, runs, diff, rest>>

\* Lines 312-322: the result built from the reply of GetEmbedding.
MakeResult(job, ok) ==
    [Index |-> job.Index,
     Vector |-> IF ok THEN GetEmbedding(job.Chunk.Content) ELSE NilVector,
     Err |-> ~ok]

\* Fault: a call that failed is made once more.
WorkerCallRetriesOnce(w, ok) ==
    /\ pool.worker[w].pc = "call"
    /\ LET job == pool.worker[w].job
           again == ~ok /\ pool.calls[job.Index] = 0
       IN pool' = [pool EXCEPT
                      !.worker[w] = [@ EXCEPT !.pc = IF again THEN "call" ELSE "send",
                                              !.res = MakeResult(job, ok)],
                      !.calls[job.Index] = @ + 1,
                      !.issued[job.Index] = IF again THEN @ + 1 ELSE @,
                      !.failed = IF ok THEN @ ELSE @ \cup {job.Index}]
    /\ UNCHANGED <<documents, chunks, nextId, points, runs, diff, rest>>

\* Line 313: GetEmbedding returns, with a vector or with an error.
WorkerCall(w, ok) ==
    /\ pool.worker[w].pc = "call"
    /\ LET job == pool.worker[w].job
       IN pool' = [pool EXCEPT
                      !.worker[w] = [@ EXCEPT !.pc = "send", !.res = MakeResult(job, ok)],
                      !.calls[job.Index] = @ + 1,
                      !.failed = IF ok THEN @ ELSE @ \cup {job.Index}]
    /\ UNCHANGED <<documents, chunks, nextId, points, runs, diff, rest>>

\* Line 318: results <- embeddingResult{...}; the send waits while the channel
\* is full.
WorkerSend(w) ==
    /\ pool.worker[w].pc = "send"
    /\ Len(pool.results) < Capacity(pool.numJobs)
    /\ pool' = [pool EXCEPT
                   !.results = Append(@, pool.worker[w].res),
                   !.order = Append(@, pool.worker[w].res.Index),
                   !.worker[w] = [@ EXCEPT !.pc = "recv", !.job = NoJob, !.res = NoResult]]
    /\ UNCHANGED <<documents, chunks, nextId, points, runs, diff, rest>>

\* Fault: the orchestrator goes on to read the results without wg.Wait().
PoolWaitNoBarrier ==
    /\ pool.pc = "wait"
    /\ pool' = [pool EXCEPT !.pc = "collect", !.resultsClosed = TRUE,
                            !.finalVectors = [i \in 1..pool.numJobs |-> NilVector]]
    /\ UNCHANGED <<documents, chunks, nextId, points, runs, diff, rest>>

\* Lines 295-298: wg.Wait() returns once every worker is done; close(results),
\* finalVectors := make([][]float32, numJobs).
PoolWait ==
    /\ pool.pc = "wait"
    /\ pool.wg = 0
    /\ pool' = [pool EXCEPT !.pc = "collect", !.resultsClosed = TRUE,
                            !.finalVectors = [i \in 1..pool.numJobs |-> NilVector]]
    /\ UNCHANGED <<documents, chunks, nextId, points, runs, diff, rest>>

\* Fault: the result is stored at the next free slot, ignoring its Index.
StoreResultInArrivalOrder(finalVectors, res, seen) ==
    [finalVectors EXCEPT ![seen + 1] = res.Vector]

\* Line 303: finalVectors[res.Index] = res.Vector.
StoreResult(finalVectors, res, seen) ==
    [finalVectors EXCEPT ![res.Index + 1] = res.Vector]

\* Fault: a failed result is skipped instead of failing the batch.
CollectSkippingErrors(p, res) ==
    IF res.Err
    THEN [p EXCEPT !.results = Tail(@)]
    ELSE [p EXCEPT !.results = Tail(@),
                   !.finalVectors = StoreResult(@, res, p.numJobs - Len(p.results))]

\* Lines 299-304, one pass of the loop over the results.
Collect(p, res) ==
    IF res.Err
    THEN [p EXCEPT !.pc = "done", !.ret = [vectors |-> NilVector, err |-> TRUE]]
    ELSE [p EXCEPT !.results = Tail(@),
                   !.finalVectors = StoreResult(@, res, p.numJobs - Len(p.results))]

PoolCollect ==
    /\ pool.pc = "collect"
    /\ Len(pool.results) > 0
    /\ pool' = Collect(pool, Head(pool.results))
    /\ UNCHANGED <<documents, chunks, nextId, points, runs, diff, rest>>

\* Line 305: the channel is drained; return finalVectors, nil.
PoolReturn ==
    /\ pool.pc = "collect"
    /\ Len(pool.results) = 0
    /\ pool' = [pool EXCEPT !.pc = "done",
                            !.ret = [vectors |-> pool.finalVectors, err |-> FALSE]]
    /\ UNCHANGED <<documents, chunks, nextId, points, runs, diff, rest>>

PoolInit ==
    /\ documents = <<>>
    /\ chunks = {}
    /\ nextId = 1
    /\ points = {}
    /\ runs = [r \in RunIds |-> IdleRun]
    /\ pool \in {PoolStart(cs) : cs \in Batches}
    /\ diff = DiffIdle
    /\ RestIdle

PoolNext ==
    \/ PoolBegin
    \/ PoolEnqueue
    \/ PoolCloseJobs
    \/ \E w \in Workers : WorkerRecv(w)
    \/ \E w \in Workers : WorkerExit(w)
    \/ \E w \in Workers, ok \in BOOLEAN : WorkerCall(w, ok)
    \/ \E w \in Workers : WorkerSend(w)
    \/ PoolWait
    \/ PoolCollect
    \/ PoolReturn

PoolSpec == PoolInit /\ [][PoolNext]_vars

\* ========================================================== LoadSpec
\* One call of embedChunks on a batch smaller than, as large as and larger
\* than the number of workers.  To keep the larger batches tractable the
\* embedding service answers the calls in the order they were issued, a
\* worker sends its result before the next answer arrives, and only the call
\* for the last chunk may fail; the other orders of completion and the other
\* failures are those of PoolSpec.
MaxExtra == 1

LoadBatches ==
    {[i \in 1..n |-> MkChunk(<<"a">>)] : n \in {1, numWorkers, numWorkers + MaxExtra}}

\* The call of worker w is the oldest call in flight, and no result is
\* waiting to be sent.
OldestCall(w) ==
    /\ pool.worker[w].pc = "call"
    /\ \A v \in DOMAIN pool.worker :
          /\ pool.worker[v].pc # "send"
          /\ pool.worker[v].pc = "call" => pool.worker[w].job.Index <= pool.worker[v].job.Index

\* The call of worker w is the call for the last chunk of the batch.
LastCall(w) == pool.worker[w].job.Index = pool.numJobs - 1

LoadInit ==
    /\ documents = <<>>
    /\ chunks = {}
    /\ nextId = 1
    /\ points = {}
    /\ runs = [r \in RunIds |-> IdleRun]
    /\ pool \in {PoolStart(cs) : cs \in LoadBatches}
    /\ diff = DiffIdle
    /\ RestIdle

\* The workers are those PoolBegin started.
LoadNext ==
    \/ PoolBegin
    \/ PoolEnqueue
    \/ PoolCloseJobs
    \/ \E w \in DOMAIN pool.worker : WorkerRecv(w)
    \/ \E w \in DOMAIN pool.worker : WorkerExit(w)
    \/ \E w \in DOMAIN pool.worker, ok \in BOOLEAN :
          OldestCall(w) /\ (ok \/ LastCall(w)) /\ WorkerCall(w, ok)
    \/ \E w \in DOMAIN pool.worker : WorkerSend(w)
    \/ PoolWait
    \/ PoolCollect
    \/ PoolReturn

LoadSpec == LoadInit /\ [][LoadNext]_vars

\* Every goroutine that can take a step is scheduled in the end, and every
\* embedding call returns.
FairLoadSpec == LoadSpec /\ WF_vars(LoadNext)

\* ========================================================== DiffSpec
\* The diff of ProcessDocument (lines 59-92) on bounded inputs: a new chunk
\* sequence, a reordering of it, and the prior chunk rows in the order fetched.
MaxPrior == 2

DiffTexts == Texts \cup {"c"}

ChunkSeqs(n) == {ChunkMarkdown(content) : content \in BoundedSeq(DiffTexts, n)}

\* Chunk rows as syncDatabase inserts them: a generated id, an index, the
\* chunk's content and the hash of that content.
PriorRows(cs) ==
    [i \in 1..Len(cs) |->
        [id |-> i, index |-> i - 1, content |-> cs[i].Content,
         content_hash |-> cs[i].ContentHash, document |-> 1]]

IsReordering(s, t) ==
    /\ Len(s) = Len(t)
    /\ \E f \in [DOMAIN s -> DOMAIN s] :
          /\ \A i, j \in DOMAIN s : i # j => f[i] # f[j]
          /\ \A i \in DOMAIN s : t[i] = s[f[i]]

DiffInputs ==
    {[pc |-> "input", newChunks |-> n, reordered |-> m, prior |-> PriorRows(q),
      out |-> Diff(<<>>, NoMap), outReordered |-> Diff(<<>>, NoMap)] :
        n \in ChunkSeqs(MaxChunks),
        m \in ChunkSeqs(MaxChunks),
        q \in ChunkSeqs(MaxPrior)}

DiffInit ==
    /\ documents = <<>>
    /\ chunks = {}
    /\ nextId = 1
    /\ points = {}
    /\ runs = [r \in RunIds |-> IdleRun]
    /\ pool = PoolIdle
    /\ diff \in {x \in DiffInputs : IsReordering(x.newChunks, x.reordered)}
    /\ RestIdle

RunDiff ==
    /\ diff.pc = "input"
    /\ diff' = [diff EXCEPT
                   !.pc = "done",
                   !.out = Diff(diff.newChunks, ExistingChunks(diff.prior)),
                   !.outReordered = Diff(diff.reordered, ExistingChunks(diff.prior))]
    /\ UNCHANGED <<documents, chunks, nextId, points, runs, pool, rest>>

DiffNext == RunDiff

DiffSpec == DiffInit /\ [][DiffNext]_vars

\* =========================================================== SeqSpec
\* The runs of a document one after another: the caller accepts a content
\* update only when no run of the document is in flight.
MaxSeqRuns == 3

\* The contents over Texts, and <<"a", "b">> with its second paragraph edited.
SeqContents == BoundedSeq(Texts, MaxChunks) \cup {<<"a", "c">>}

SeqInit ==
    /\ documents = <<>>
    /\ chunks = {}
    /\ nextId = 1
    /\ points = {}
    /\ runs = [r \in 1..MaxSeqRuns |-> IdleRun]
    /\ pool = PoolIdle
    /\ diff = DiffIdle
    /\ RestIdle

SeqNext ==
    \/ \E d \in DocIds, name \in Names, content \in SeqContents, project \in ProjectIds :
          CreateDocument(d, name, content, project)
    \/ \E d \in DocIds, content \in SeqContents :
          ~InFlight(d) /\ UpdateDocument(d, content)
    \/ \E r \in DOMAIN runs : RunStep(r)

SeqSpec == SeqInit /\ [][SeqNext]_vars

\* ======================================================== DeleteSpec
\* Spec together with DeleteDocument (internal/documents/service.go:182-222)
\* and the DeleteDocumentVectors call it makes (services/embed/service.go:
\* 128-177).  One request is served at a time; a document id is not used again
\* once its document is deleted.
MaxDeletes == 2

DeleterStart ==
    [pc |-> "idle", doc |-> 0, chunkIDs |-> {}, ops |-> <<>>,
     vret |-> "none", ret |-> "none", calls |-> 0, deleted |-> {}]

DelLogged(del, name, ok, ids) ==
    [del EXCEPT !.ops = Append(@, [op |-> name, ok |-> ok, ids |-> ids])]

\* A transaction of a run holds locks on the document row or on its chunk rows:
\* the delete of the document waits for it.
TxPending(d) ==
    \E r \in DOMAIN runs :
        /\ runs[r].txOpen
        /\ runs[r].doc.id = d
        /\ runs[r].txDel # {} \/ runs[r].txIns # <<>>

\* Lines 192-204 of DeleteDocument: the document is found and owned.
DeleteVerifyOk(d) ==
    /\ deleter.pc \in {"idle", "done"}
    /\ deleter.calls < MaxDeletes
    /\ d \in DOMAIN documents
    /\ deleter' = [deleter EXCEPT !.pc = "ids", !.doc = d, !.chunkIDs = {}, !.ops = <<>>,
                                  !.vret = "none", !.ret = "none", !.calls = @ + 1]
    /\ UNCHANGED <<documents, chunks, nextId, points, runs, pool, diff, chunker, collection>>

\* Lines 201-204: not found, not owned, or the query failed.
DeleteVerifyFail(d) ==
    /\ deleter.pc \in {"idle", "done"}
    /\ deleter.calls < MaxDeletes
    /\ deleter' = [deleter EXCEPT !.pc = "done", !.doc = d, !.chunkIDs = {}, !.ops = <<>>,
                                  !.vret = "none", !.ret = "err", !.calls = @ + 1]
    /\ UNCHANGED <<documents, chunks, nextId, points, runs, pool, diff, chunker, collection>>

\* Fault: no early return for an empty id list.
AfterChunkIDsNoEarlyReturn(del, ids) ==
    [DelLogged(del, "ids", TRUE, ids) EXCEPT !.chunkIDs = ids, !.pc = "vdelete"]

\* Lines 133-144 of DeleteDocumentVectors: the ids are there; return nil when
\* there is none.
AfterChunkIDs(del, ids) ==
    IF ids = {}
    THEN [DelLogged(del, "ids", TRUE, ids) EXCEPT
             !.chunkIDs = ids, !.vret = "ok", !.pc = "dbdelete"]
    ELSE [DelLogged(del, "ids", TRUE, ids) EXCEPT !.chunkIDs = ids, !.pc = "vdelete"]

ChunkIDsOk ==
    /\ deleter.pc = "ids"
    /\ deleter' = AfterChunkIDs(deleter, ChunkRowIds(deleter.doc))
    /\ UNCHANGED <<documents, chunks, nextId, points, runs, pool, diff, chunker, collection>>

\* Lines 137-139: the query failed; DeleteDocument logs the error and goes on.
ChunkIDsFail ==
    /\ deleter.pc = "ids"
    /\ deleter' = [DelLogged(deleter, "ids", FALSE, {}) EXCEPT
                       !.vret = "err", !.pc = "dbdelete"]
    /\ UNCHANGED <<documents, chunks, nextId, points, runs, pool, diff, chunker, collection>>

\* Fault: the loop over chunkIDs stops one id short.
PointsToDeleteOneShort(chunkIDs) ==
    chunkIDs \ {id \in chunkIDs : \A other \in chunkIDs : other <= id}

\* Lines 147-152: one PointId{Num: uint64(id)} per chunk id (ids are positive).
PointsToDelete(chunkIDs) == {id \in chunkIDs : id >= 0}

\* Lines 165-176: the points of the ids read are deleted.
VectorsDeleteOk ==
    /\ deleter.pc = "vdelete"
    /\ points' = DeletePoints(points, PointsToDelete(deleter.chunkIDs))
    /\ deleter' = [DelLogged(deleter, "vdelete", TRUE, PointsToDelete(deleter.chunkIDs)) EXCEPT
                       !.vret = "ok", !.pc = "dbdelete"]
    /\ UNCHANGED <<documents, chunks, nextId, runs, pool, diff, chunker, collection>>

\* Lines 171-173.
VectorsDeleteFail ==
    /\ deleter.pc = "vdelete"
    /\ deleter' = [DelLogged(deleter, "vdelete", FALSE, PointsToDelete(deleter.chunkIDs)) EXCEPT
                       !.vret = "err", !.pc = "dbdelete"]
    /\ UNCHANGED <<documents, chunks, nextId, points, runs, pool, diff, chunker, collection>>

\* Lines 215-221 of DeleteDocument: the document row goes, and its chunk rows
\* with it (ON DELETE CASCADE).
DocDeleteOk ==
    /\ deleter.pc = "dbdelete"
    /\ ~TxPending(deleter.doc)
    /\ documents' = [x \in DOMAIN documents \ {deleter.doc} |-> documents[x]]
    /\ chunks' = chunks \ RowsOf(deleter.doc)
    /\ deleter' = [DelLogged(deleter, "dbdelete", TRUE, {}) EXCEPT
                       !.ret = "ok", !.pc = "done", !.deleted = @ \cup {deleter.doc}]
    /\ UNCHANGED <<nextId, points, runs, pool, diff, chunker, collection>>

DocDeleteFail ==
    /\ deleter.pc = "dbdelete"
    /\ deleter' = [DelLogged(deleter, "dbdelete", FALSE, {}) EXCEPT
                       !.ret = "err", !.pc = "done"]
    /\ UNCHANGED <<documents, chunks, nextId, points, runs, pool, diff, chunker, collection>>

DeleteStep ==
    \/ \E d \in DocIds : DeleteVerifyOk(d)
    \/ \E d \in DocIds : DeleteVerifyFail(d)
    \/ ChunkIDsOk \/ ChunkIDsFail
    \/ VectorsDeleteOk \/ VectorsDeleteFail
    \/ DocDeleteOk \/ DocDeleteFail

DeleteInit ==
    /\ documents = <<>>
    /\ chunks = {}
    /\ nextId = 1
    /\ points = {}
    /\ runs = [r \in RunIds |-> IdleRun]
    /\ pool = PoolIdle
    /\ diff = DiffIdle
    /\ deleter = DeleterStart
    /\ chunker = Off
    /\ collection = Off

\* A panic in a goroutine ends the process: no request is served and no run
\* takes a step after it; the stores keep what they hold.
Crashed == \E r \in DOMAIN runs : runs[r].pc = "panicked"

DeleteNext ==
    \/ /\ ~Crashed
       /\ \E d \in DocIds \ deleter.deleted, name \in Names, content \in Contents,
                project \in ProjectIds :
             CreateDocument(d, name, content, project)
    \/ /\ ~Crashed
       /\ \E d \in DocIds, content \in Contents : UpdateDocument(d, content)
    \/ /\ ~Crashed
       /\ \E r \in RunIds : RunStep(r)
    \/ /\ ~Crashed
       /\ DeleteStep

DeleteSpec == DeleteInit /\ [][DeleteNext]_vars

\* ======================================================= ChunkerSpec
\* One call of splitSectionByWords or of chunkCodeFile on a text of n words,
\* n in 0..MaxWords, with and without whitespace around it, and the same call
\* on the text with further whitespace put before and after it.
MaxWords == 513

\* n distinct words, separated in turn by a blank and by a line break.
WordsText(n) ==
    [k \in 1..(IF n = 0 THEN 0 ELSE 2 * n - 1) |->
        IF k % 2 = 1 THEN ToString((k + 1) \div 2)
        ELSE IF (k \div 2) % 2 = 1 THEN " " ELSE "\n"]

Padded(text) == <<"\n", " ">> \o text \o <<" ", "\n">>

ChunkerInputs ==
    {[pc |-> "input", strategy |-> st, text |-> lead \o WordsText(n) \o trail,
      out |-> <<>>, outPadded |-> <<>>] :
        st \in {"section", "code"}, n \in 0..MaxWords,
        lead \in {<<>>, <<" ", "\n">>}, trail \in {<<>>, <<" ", "\n">>}}

ChunkerInit ==
    /\ documents = <<>>
    /\ chunks = {}
    /\ nextId = 1
    /\ points = {}
    /\ runs = [r \in RunIds |-> IdleRun]
    /\ pool = PoolIdle
    /\ diff = DiffIdle
    /\ deleter = Off
    /\ chunker \in ChunkerInputs
    /\ collection = Off

RunSplitSection ==
    /\ chunker.pc = "input"
    /\ chunker.strategy = "section"
    /\ chunker' = [chunker EXCEPT !.pc = "done",
                                  !.out = splitSectionByWords(chunker.text),
                                  !.outPadded = splitSectionByWords(Padded(chunker.text))]
    /\ UNCHANGED <<documents, chunks, nextId, points, runs, pool, diff, deleter, collection>>

RunChunkCodeFile ==
    /\ chunker.pc = "input"
    /\ chunker.strategy = "code"
    /\ chunker' = [chunker EXCEPT !.pc = "done",
                                  !.out = chunkCodeFile(chunker.text),
                                  !.outPadded = chunkCodeFile(Padded(chunker.text))]
    /\ UNCHANGED <<documents, chunks, nextId, points, runs, pool, diff, deleter, collection>>

ChunkerNext == RunSplitSection \/ RunChunkCodeFile

ChunkerSpec == ChunkerInit /\ [][ChunkerNext]_vars

\* ====================================================== MarkdownSpec
\* ChunkMarkdown (part_012:34-66) on the top-level blocks of a parsed document.
\* A block is [level, span]: level is the heading level, 0 for a block that is
\* no heading; span is the source text of the block's lines, empty when the
\* block has no lines.  The text of a heading is its span.
MaxBlocks == 4

\* part_012:31
headingLevelToSplit == 2

BlockLevels == 0..3

\* The block sequences of up to MaxBlocks blocks; the block at position i, if
\* it has lines, holds the one word i.
BlockSeqs ==
    UNION {{[i \in 1..n |-> [level |-> lv[i],
                             span |-> IF sp[i] THEN <<ToString(i)>> ELSE <<>>]] :
               lv \in [1..n -> BlockLevels], sp \in [1..n -> BOOLEAN]} : n \in 0..MaxBlocks}

\* Fault: a heading of any level splits.
IsSplitHeadingAnyLevel(node) == node.level > 0

\* Line 44: the node is a heading of the level that splits.
IsSplitHeading(node) == node.level = headingLevelToSplit

\* Lines 45-47 and 61-63: a non-empty buffer becomes a section, labelled with
\* the current headings.
Flush(sections, currentChunk, currentHeadings) ==
    IF Len(currentChunk) > 0
    THEN Append(sections, [text |-> currentChunk, headings |-> currentHeadings])
    ELSE sections

\* Lines 43-63: the loop over the top-level nodes from node i on, and the
\* flush after the last node.
RECURSIVE MarkdownLoop(_, _, _, _, _)
MarkdownLoop(nodes, i, sections, currentChunk, currentHeadings) ==
    IF i > Len(nodes)
    THEN Flush(sections, currentChunk, currentHeadings)
    ELSE LET node == nodes[i]
             split == IsSplitHeading(node)
             flushed == IF split THEN Flush(sections, currentChunk, currentHeadings)
                        ELSE sections
             buffer == IF split THEN <<>> ELSE currentChunk
             headings == IF split THEN node.span ELSE currentHeadings
         IN IF Len(node.span) = 0
            THEN MarkdownLoop(nodes, i + 1, flushed, buffer, headings)
            ELSE MarkdownLoop(nodes, i + 1, flushed,
                              buffer \o node.span \o <<"\n", "\n">>, headings)

Sections(nodes) == MarkdownLoop(nodes, 1, <<>>, <<>>, <<>>)

\* Lines 46 and 62: the chunks of the sections, in order; every chunk of a
\* section carries the section's headings as its label.
RECURSIVE ChunksOfSections(_, _)
ChunksOfSections(sections, k) ==
    IF k > Len(sections) THEN <<>>
    ELSE splitSectionByWords(sections[k].text) \o ChunksOfSections(sections, k + 1)

MarkdownInputs ==
    {[pc |-> "input", nodes |-> b, sections |-> <<>>, out |-> <<>>] : b \in BlockSeqs}

MarkdownInit ==
    /\ documents = <<>>
    /\ chunks = {}
    /\ nextId = 1
    /\ points = {}
    /\ runs = [r \in RunIds |-> IdleRun]
    /\ pool = PoolIdle
    /\ diff = DiffIdle
    /\ deleter = Off
    /\ chunker \in MarkdownInputs
    /\ collection = Off

RunChunkMarkdown ==
    /\ chunker.pc = "input"
    /\ chunker' = [chunker EXCEPT !.pc = "done",
                                  !.sections = Sections(chunker.nodes),
                                  !.out = ChunksOfSections(Sections(chunker.nodes), 1)]
    /\ UNCHANGED <<documents, chunks, nextId, points, runs, pool, diff, deleter, collection>>

MarkdownNext == RunChunkMarkdown

MarkdownSpec == MarkdownInit /\ [][MarkdownNext]_vars

\* ==================================================== CollectionSpec
\* The collection of the vector index and calls of EnsureCollectionExists
\* (part_012:178-254).  Calls may follow one another or overlap (two instances
\* of the service starting together).
MaxCalls == 3

\* Fault: the index of document_id is created first.
PayloadFieldsDocumentFirst == <<"document_id", "user_id", "project_id", "chunk_id">>

\* The payload fields, in the order their indexes are created.
PayloadFields == <<"user_id", "project_id", "document_id", "chunk_id">>

CollectionStart ==
    [exists |-> FALSE, indexes |-> {},
     call |-> [c \in 1..MaxCalls |->
                  [pc |-> "idle", next |-> 1, ret |-> "none", ops |-> <<>>]]]

\* The calls a call of EnsureCollectionExists made to the store, with their
\* results, in order.
Called(col, c, op, res) ==
    [col EXCEPT !.call[c].ops = Append(@, [op |-> op, res |-> res])]

Returned(c, ret) ==
    [collection EXCEPT !.call[c] = [@ EXCEPT !.pc = "done", !.ret = ret]]

\* Lines 181-186 and 249-253: the reply of Get decides.  The store answers
\* not-found exactly when the collection is missing; any call can fail.
EnsureGet(c, reply) ==
    /\ collection.call[c].pc = "idle"
    /\ reply = "ok" => collection.exists
    /\ reply = "notfound" => ~collection.exists
    /\ collection' =
          Called(CASE reply = "ok" -> Returned(c, "ok")
                   [] reply = "notfound" -> [collection EXCEPT !.call[c].pc = "create"]
                   [] reply = "error" -> Returned(c, "err"),
                 c, "get", reply)
    /\ UNCHANGED <<documents, chunks, nextId, points, runs, pool, diff, deleter, chunker>>

\* Fault: a rejected creation is taken for a success.
EnsureCreateIgnoresError(c, ok) ==
    /\ collection.call[c].pc = "create"
    /\ ok => ~collection.exists
    /\ collection' =
          Called([collection EXCEPT !.exists = TRUE, !.call[c].pc = "index"],
                 c, "create",
                 IF ok THEN "ok" ELSE IF collection.exists THEN "exists" ELSE "error")
    /\ UNCHANGED <<documents, chunks, nextId, points, runs, pool, diff, deleter, chunker>>

\* Lines 191-205: Create; the store rejects the creation of a collection that
\* exists.
EnsureCreate(c, ok) ==
    /\ collection.call[c].pc = "create"
    /\ ok => ~collection.exists
    /\ collection' =
          Called(IF ok
                 THEN [collection EXCEPT !.exists = TRUE, !.call[c].pc = "index"]
                 ELSE Returned(c, "err"),
                 c, "create",
                 IF ok THEN "ok" ELSE IF collection.exists THEN "exists" ELSE "error")
    /\ UNCHANGED <<documents, chunks, nextId, points, runs, pool, diff, deleter, chunker>>

\* Lines 208-247: CreateFieldIndex for the next payload field; return nil
\* after the last one.
EnsureIndex(c, ok) ==
    /\ collection.call[c].pc = "index"
    /\ LET k == collection.call[c].next
           made == [collection EXCEPT !.indexes = @ \cup {PayloadFields[k]}]
       IN collection' =
             Called(IF ~ok THEN Returned(c, "err")
                    ELSE IF k = Len(PayloadFields)
                         THEN [made EXCEPT !.call[c] = [@ EXCEPT !.pc = "done", !.ret = "ok"]]
                         ELSE [made EXCEPT !.call[c].next = k + 1],
                    c, PayloadFields[k], IF ok THEN "ok" ELSE "error")
    /\ UNCHANGED <<documents, chunks, nextId, points, runs, pool, diff, deleter, chunker>>

CollectionInit ==
    /\ documents = <<>>
    /\ chunks = {}
    /\ nextId = 1
    /\ points = {}
    /\ runs = [r \in RunIds |-> IdleRun]
    /\ pool = PoolIdle
    /\ diff = DiffIdle
    /\ deleter = Off
    /\ chunker = Off
    /\ collection = CollectionStart

CollectionNext ==
    \/ \E c \in 1..MaxCalls, reply \in {"ok", "notfound", "error"} : EnsureGet(c, reply)
    \/ \E c \in 1..MaxCalls, ok \in BOOLEAN : EnsureCreate(c, ok)
    \/ \E c \in 1..MaxCalls, ok \in BOOLEAN : EnsureIndex(c, ok)

CollectionSpec == CollectionInit /\ [][CollectionNext]_vars

\* =========================================================== IsoSpec
\* Two documents.  Document 2 has been created with content <<"a">> and
\* processed: its row and its point are in the stores.  Document 1 is created
\* and both documents are updated; the runs of one document follow one
\* another, the runs of different documents interleave freely.
IsoDocIds == {1, 2}

IsoInit ==
    LET doc == [id |-> 2, project |-> 7]
        row == [id |-> 1, index |-> 0, content |-> <<"a">>,
                content_hash |-> getContentHash(<<"a">>), document |-> 2]
    IN /\ documents = [d \in {2} |-> [name |-> "notes.md", content |-> <<"a">>,
                                       status |-> "completed", project |-> 7]]
       /\ chunks = {row}
       /\ nextId = 2
       /\ points = {MkPoint(row, GetEmbedding(<<"a">>), Owner(7), doc)}
       /\ runs = [r \in RunIds |-> IdleRun]
       /\ pool = PoolIdle
       /\ diff = DiffIdle
       /\ RestIdle

IsoNext ==
    \/ \E d \in IsoDocIds, name \in Names, content \in Contents, project \in ProjectIds :
          CreateDocument(d, name, content, project)
    \/ \E d \in IsoDocIds, content \in Contents :
          ~InFlight(d) /\ UpdateDocument(d, content)
    \/ \E r \in RunIds : RunStep(r)

IsoSpec == IsoInit /\ [][IsoNext]_vars

\* ===================================================== claims: Spec
PointIdsOf(d) == {p.id : p \in {q \in points : q.payload.document_id = d}}

SyncOps == {"vdelete", "txbegin", "rowdelete", "rowinsert", "upsert", "commit"}

HasOp(run, name, ok) == \E i \in DOMAIN run.ops : run.ops[i] = Op(name, ok)

OpNames(run) == {run.ops[i].op : i \in DOMAIN run.ops}

\* C1: whenever a document's status is completed and no run for it is in
\* flight, the ids of its chunk rows are exactly the ids of the vector-index
\* points whose payload names the document.
C1_CrossStoreInvariant ==
    \A d \in DOMAIN documents :
        (documents[d].status = "completed" /\ ~InFlight(d))
            => ChunkRowIds(d) = PointIdsOf(d)

StatusTransitions ==
    {<<"uploaded", "processing">>, <<"processing", "completed">>,
     <<"uploaded", "failed">>, <<"processing", "failed">>,
     <<"completed", "processing">>, <<"failed", "processing">>}

\* C2: the status of a document changes only along uploaded -> processing ->
\* completed or failed, and from completed or failed back to processing; in
\* particular it never moves from uploaded straight to completed.
C2_StatusStateMachine ==
    [][\A d \in DOMAIN documents :
          documents'[d].status # documents[d].status
              => <<documents[d].status, documents'[d].status>> \in StatusTransitions]_vars

SyncFailedAt(run, i) == run.ops[i].op \in SyncOps /\ ~run.ops[i].ok

\* C3: a run in which a step of the store sync failed has written failed and
\* nothing else, has ended, and has issued no vector-index call, chunk-row write
\* or commit after the failed step (only the rollback of its open transaction).
C3_SyncFailureStops ==
    \A r \in RunIds : \A i \in DOMAIN runs[r].ops :
        SyncFailedAt(runs[r], i)
            => /\ runs[r].pc = "done"
               /\ runs[r].statusWrites = <<"failed">>
               /\ \A j \in DOMAIN runs[r].ops : j > i => runs[r].ops[j].op = "rollback"

C3_Witness ==
    \E r \in RunIds :
        /\ HasOp(runs[r], "upsert", FALSE)
        /\ HasOp(runs[r], "rowdelete", TRUE)
        /\ runs[r].pc = "done"

TerminalWrite(run) ==
    /\ Len(run.statusWrites) = 1
    /\ run.statusWrites[1] \in {"completed", "failed"}

\* C4: under fairness every started run ends, and a run that has ended has
\* written exactly one status, completed or failed.
C4_RunTerminates ==
    \A r \in RunIds :
        /\ [](runs[r].pc = "done" => TerminalWrite(runs[r]))
        /\ [](runs[r].pc # "idle" => <>(runs[r].pc = "done"))

C4_Witness ==
    \E r \in RunIds :
        /\ runs[r].pc = "done"
        /\ HasOp(runs[r], "embed", TRUE)
        /\ HasOp(runs[r], "commit", TRUE)
        /\ runs[r].statusWrites = <<"completed">>

EmbedFailed(run) == HasOp(run, "embed", FALSE)

\* C5: a run whose embedding failed has ended with the single status write
\* failed and has issued no vector-index or chunk-row operation; the step in
\* which the embedding fails leaves both stores as they were and sets the
\* document's status to failed.
C5_EmbedFailureTouchesNoStore ==
    [][\A r \in RunIds :
          EmbedFailed(runs'[r])
              => /\ runs'[r].pc = "done"
                 /\ runs'[r].statusWrites = <<"failed">>
                 /\ OpNames(runs'[r]) \cap (SyncOps \cup {"rollback"}) = {}
                 /\ ~EmbedFailed(runs[r])
                       => /\ chunks' = chunks
                          /\ points' = points
                          /\ documents'[runs[r].doc.id].status = "failed"]_vars

C5_Witness ==
    \E r \in RunIds :
        /\ EmbedFailed(runs[r])
        /\ DOMAIN runs[r].toDelete # {}
        /\ documents[runs[r].doc.id].status = "failed"

Fetched(run) == HasOp(run, "fetch", TRUE)

ToDeleteRows(run) == {run.toDelete[h] : h \in DOMAIN run.toDelete}

\* C8: in every run, to-embed is exactly the new chunks whose hash is the hash
\* of no prior chunk row, to-delete is exactly every prior chunk row whose hash
\* occurs nowhere in the new sequence, and no hash occurs in both.
C8_DiffClassification ==
    \A r \in RunIds :
        Fetched(runs[r])
            => LET run == runs[r]
                   priorHashes == {c.content_hash : c \in run.prior}
               IN /\ run.toEmbed =
                        SelectSeq(run.newChunks, LAMBDA c : c.ContentHash \notin priorHashes)
                  /\ ToDeleteRows(run) =
                        {c \in run.prior : c.content_hash \notin Hashes(run.newChunks)}
                  /\ Hashes(run.toEmbed) \cap DOMAIN run.toDelete = {}

\* ================================================= claims: PoolSpec
\* C6: when every embedding call of the batch succeeded, embedChunks returns no
\* error and a vector list as long as the input whose vector at index i is the
\* embedding of the content of input chunk i, whatever the order of completion.
C6_PoolPreservesOrder ==
    (pool.pc = "done" /\ pool.failed = {})
        => /\ ~pool.ret.err
           /\ Len(pool.ret.vectors) = Len(pool.chunks)
           /\ \A i \in 1..Len(pool.chunks) :
                  pool.ret.vectors[i] = GetEmbedding(pool.chunks[i].Content)

C6_Witness ==
    /\ pool.pc = "done"
    /\ pool.failed = {}
    /\ Len(pool.chunks) >= 2
    /\ pool.chunks[1] # pool.chunks[2]
    /\ pool.order[1] = 1
    /\ ~pool.ret.err

\* C7: when at least one embedding call of the batch failed, embedChunks returns
\* an error and nil instead of a vector list, whichever calls failed and in
\* whatever order the results arrived.
C7_PoolFailsBatch ==
    (pool.pc = "done" /\ pool.failed # {})
        => /\ pool.ret.err
           /\ pool.ret.vectors = NilVector

C7_Witness ==
    /\ pool.pc = "done"
    /\ pool.failed = {1}
    /\ pool.order = <<0, 1>>
    /\ pool.ret.err

\* ================================================= claims: DiffSpec
\* C9: with no prior chunk row, to-embed is the whole new chunk sequence, in
\* the same order and with repeated chunks kept, and to-delete is empty.
C9_EmptyPriorEmbedsAll ==
    (diff.pc = "done" /\ diff.prior = <<>>)
        => /\ diff.out.toEmbed = diff.newChunks
           /\ DOMAIN diff.out.toDelete = {}

C9_Witness ==
    /\ diff.pc = "done"
    /\ diff.prior = <<>>
    /\ Len(diff.newChunks) = 2
    /\ diff.newChunks[1] = diff.newChunks[2]
    /\ Len(diff.out.toEmbed) = 2

PriorContents(prior) == [i \in DOMAIN prior |-> prior[i].content]

NewContents(cs) == [i \in DOMAIN cs |-> cs[i].Content]

\* C10: reordering the new chunk sequence changes neither to-delete nor the set
\* of to-embed hashes, and a new sequence that is a reordering of the stored
\* chunks gives an empty to-embed and an empty to-delete.
C10_DiffStableUnderReordering ==
    diff.pc = "done"
        => /\ diff.out.toDelete = diff.outReordered.toDelete
           /\ Hashes(diff.out.toEmbed) = Hashes(diff.outReordered.toEmbed)
           /\ IsReordering(PriorContents(diff.prior), NewContents(diff.newChunks))
                 => /\ diff.out.toEmbed = <<>>
                    /\ DOMAIN diff.out.toDelete = {}

C10_Witness ==
    /\ diff.pc = "done"
    /\ Len(diff.prior) = 2
    /\ diff.prior[1].content_hash # diff.prior[2].content_hash
    /\ IsReordering(PriorContents(diff.prior), NewContents(diff.newChunks))
    /\ NewContents(diff.newChunks) # PriorContents(diff.prior)
    /\ diff.out.toEmbed = <<>>
    /\ DOMAIN diff.out.toDelete = {}

\* ================================================== claims: SeqSpec
Completed(run) == run.pc = "done" /\ run.statusWrites = <<"completed">>

\* The last run of the same document before run r that ended completed, if any.
LastSuccessful(r) ==
    LET before == {q \in 1..(r - 1) :
                      Completed(runs[q]) /\ runs[q].doc.id = runs[r].doc.id}
    IN {q \in before : \A p \in before : p <= q}

\* C11: a run on content identical to the content of the document's last
\* successful run has an empty to-embed and an empty to-delete, issues no
\* embedding call, no vector-index call and no chunk-row write, and ends with
\* the single status write completed.
C11_IdenticalRerunIsNoOp ==
    \A r \in DOMAIN runs : \A q \in LastSuccessful(r) :
        (Fetched(runs[r]) /\ runs[r].newChunks = runs[q].newChunks)
            => /\ runs[r].toEmbed = <<>>
               /\ DOMAIN runs[r].toDelete = {}
               /\ OpNames(runs[r]) = {"fetch"}
               /\ runs[r].pc \in {"finalize", "done"}
               /\ runs[r].pc = "done" => runs[r].statusWrites = <<"completed">>

\* The prior rows of a run whose hash still occurs in the new chunk sequence,
\* and the prior rows whose text is gone.
KeptRows(run) == {c \in run.prior : c.content_hash \in Hashes(run.newChunks)}

ChangedRows(run) == run.prior \ KeptRows(run)

\* C12: in every step of a run, each prior row whose hash still occurs in the
\* new chunk sequence stays as it is (same id, same content) and so does its
\* point; the rows and points the step removes belong to prior chunks whose
\* text is gone; the rows it adds and the chunks it embedded are new chunks
\* whose hash no prior row had, and the points it writes are the points of
\* those new rows.
C12_PartialEditFrame ==
    [][\A r \in DOMAIN runs :
          (Fetched(runs'[r]) /\ runs'[r] # runs[r])
              => LET run == runs'[r]
                     keptIds == {c.id : c \in KeptRows(run)}
                     changedIds == {c.id : c \in ChangedRows(run)}
                     priorHashes == {c.content_hash : c \in run.prior}
                     isNew(h) == h \in Hashes(run.newChunks) /\ h \notin priorHashes
                 IN /\ \A c \in KeptRows(run) : c \in chunks => c \in chunks'
                    /\ \A q \in points : q.id \in keptIds => q \in points'
                    /\ chunks \ chunks' \subseteq ChangedRows(run)
                    /\ PointIds(points \ points') \subseteq changedIds
                    /\ \A c \in chunks' \ chunks : isNew(c.content_hash)
                    /\ \A i \in DOMAIN run.toEmbed : isNew(run.toEmbed[i].ContentHash)
                    /\ PointIds(points' \ points) \subseteq {c.id : c \in chunks' \ chunks}
                          \cup {c.id : c \in Range(run.txIns)}]_vars

C12_Witness ==
    \E r \in DOMAIN runs :
        /\ Completed(runs[r])
        /\ HasOp(runs[r], "vdelete", TRUE)
        /\ HasOp(runs[r], "rowdelete", TRUE)
        /\ HasOp(runs[r], "upsert", TRUE)
        /\ KeptRows(runs[r]) # {}
        /\ KeptRows(runs[r]) \subseteq chunks
        /\ {c.id : c \in KeptRows(runs[r])} \subseteq PointIds(points)
        /\ ChangedRows(runs[r]) \cap chunks = {}

\* The run upserted its points and its commit then failed.
Interrupted(run) == HasOp(run, "upsert", TRUE) /\ HasOp(run, "commit", FALSE)

\* C13: the run that follows an interrupted run on the same content computes
\* the same to-embed, upserts points with the point ids of the interrupted run,
\* and once it has completed no point written by the interrupted run is left
\* without a chunk row of the document.
C13_RerunReusesPointIds ==
    \A q \in DOMAIN runs : \A r \in DOMAIN runs \cap {q + 1} :
        (/\ Interrupted(runs[q])
         /\ Fetched(runs[r])
         /\ runs[r].doc.id = runs[q].doc.id
         /\ runs[r].newChunks = runs[q].newChunks)
            => /\ runs[r].toEmbed = runs[q].toEmbed
               /\ HasOp(runs[r], "upsert", TRUE)
                     => PointIds(Range(runs[r].upserts)) = PointIds(Range(runs[q].upserts))
               /\ Completed(runs[r])
                     => PointIds(Range(runs[q].upserts)) \cap PointIds(points)
                            \subseteq ChunkRowIds(runs[r].doc.id)

\* =============================================== claims: DeleteSpec
VectorDeletes(del) == {i \in DOMAIN del.ops : del.ops[i].op = "vdelete"}

\* C14: a DeleteDocumentVectors call whose chunk-id query finds no chunk row
\* of the document returns success and issues no vector-index call.
C14_NoChunksNoVectorCall ==
    \A i \in DOMAIN deleter.ops :
        deleter.ops[i] = [op |-> "ids", ok |-> TRUE, ids |-> {}]
            => /\ deleter.vret = "ok"
               /\ VectorDeletes(deleter) = {}

C14_Witness ==
    /\ deleter.pc = "done"
    /\ deleter.ret = "ok"
    /\ deleter.vret = "ok"
    /\ deleter.ops[1] = [op |-> "ids", ok |-> TRUE, ids |-> {}]
    /\ deleter.doc \in deleter.deleted

\* C15: the ids DeleteDocumentVectors reads are the ids of the document's
\* chunk rows at that moment; it issues at most one vector-index delete, for
\* exactly those ids; when it returns success after the delete, no point with
\* one of those ids is in the index (so none with the id of a chunk row of the
\* document, when the rows are still the rows read) and no other point is
\* gone; when the query or the delete fails it returns an error; and none of
\* its steps changes the documents or the chunk rows.
C15_DeleteDocumentVectors ==
    [][(deleter' # deleter /\ deleter.pc \in {"ids", "vdelete"})
          => LET d == deleter.doc
                 last == deleter'.ops[Len(deleter'.ops)]
             IN /\ documents' = documents
                /\ chunks' = chunks
                /\ Cardinality(VectorDeletes(deleter')) <= 1
                /\ deleter'.vret # "none" <=> deleter'.pc = "dbdelete"
                /\ (last.op = "ids" /\ last.ok)
                      => /\ deleter'.chunkIDs = ChunkRowIds(d)
                         /\ points' = points
                /\ last.op = "vdelete" => last.ids = deleter.chunkIDs
                /\ (last.op = "vdelete" /\ last.ok)
                      => /\ deleter'.vret = "ok"
                         /\ PointIds(points') \cap deleter.chunkIDs = {}
                         /\ points' = {q \in points : q.id \notin deleter.chunkIDs}
                         /\ ChunkRowIds(d) = deleter.chunkIDs
                               => PointIds(points') \cap ChunkRowIds(d) = {}
                /\ ~last.ok
                      => /\ deleter'.vret = "err"
                         /\ points' = points]_vars

C15_Witness ==
    /\ deleter.pc = "dbdelete"
    /\ deleter.vret = "ok"
    /\ Cardinality(deleter.chunkIDs) = 2
    /\ deleter.ops[Len(deleter.ops)] = [op |-> "vdelete", ok |-> TRUE, ids |-> deleter.chunkIDs]
    /\ ChunkRowIds(deleter.doc) = deleter.chunkIDs
    /\ PointIds(points) \cap deleter.chunkIDs = {}

\* ============================================== claims: ChunkerSpec
\* C16: every chunk either strategy produces, for any content including the
\* empty and the whitespace-only content, has a non-empty content that equals
\* its trimmed form, and a hash computed over exactly that content.
C16_ChunksNonEmptyTrimmed ==
    chunker.pc = "done"
        => \A i \in DOMAIN chunker.out :
               /\ chunker.out[i].Content # <<>>
               /\ TrimSpace(chunker.out[i].Content) = chunker.out[i].Content
               /\ chunker.out[i].ContentHash = getContentHash(chunker.out[i].Content)

WordsOf(c) == Fields(c.Content)

\* C17: for a section of n words and M = maxWordsPerChunk, splitSectionByWords
\* emits no chunk when n = 0, one chunk when 0 < n <= M and ceil(n/M) chunks
\* when n > M; every chunk but the last holds exactly M words and none holds
\* more; the words of the chunks, concatenated in order, are the words of the
\* section.
C17_WordBoundedSplitting ==
    (chunker.pc = "done" /\ chunker.strategy = "section")
        => LET n == Len(Fields(chunker.text))
               M == maxWordsPerChunk
               out == chunker.out
               RECURSIVE cat(_)
               cat(i) == IF i > Len(out) THEN <<>> ELSE WordsOf(out[i]) \o cat(i + 1)
           IN /\ n = 0 => Len(out) = 0
              /\ (0 < n /\ n <= M) => Len(out) = 1
              /\ n > M => Len(out) = (n + M - 1) \div M
              /\ \A i \in 1..(Len(out) - 1) : Len(WordsOf(out[i])) = M
              /\ \A i \in DOMAIN out : Len(WordsOf(out[i])) <= M
              /\ cat(1) = Fields(chunker.text)

C17_Witness ==
    /\ chunker.pc = "done"
    /\ chunker.strategy = "section"
    /\ Len(Fields(chunker.text)) = 2 * maxWordsPerChunk + 1
    /\ Len(chunker.out) = 3
    /\ Len(WordsOf(chunker.out[2])) = maxWordsPerChunk
    /\ Len(WordsOf(chunker.out[3])) = 1

\* C18: the hash of a chunk is the hash of its trimmed text: two chunks whose
\* trimmed contents are equal have the same hash, and whitespace added before
\* and after the text changes neither the number of chunks nor the hash of any
\* chunk.  (Chunking is a function of the text: the same text gives the same
\* chunks and hashes.)
C18_HashOfTrimmedText ==
    chunker.pc = "done"
        => LET all == Range(chunker.out) \cup Range(chunker.outPadded)
           IN /\ \A c \in all : c.ContentHash = getContentHash(TrimSpace(c.Content))
              /\ \A c1, c2 \in all :
                     TrimSpace(c1.Content) = TrimSpace(c2.Content)
                         => c1.ContentHash = c2.ContentHash
              /\ Len(chunker.outPadded) = Len(chunker.out)
              /\ \A i \in DOMAIN chunker.out :
                     chunker.outPadded[i].ContentHash = chunker.out[i].ContentHash

C18_Witness ==
    /\ chunker.pc = "done"
    /\ chunker.strategy = "code"
    /\ chunker.text # TrimSpace(chunker.text)
    /\ Len(Fields(chunker.text)) = 2
    /\ chunker.out[1].Content = TrimSpace(chunker.text)
    /\ chunker.outPadded[1].ContentHash = chunker.out[1].ContentHash

\* =========================================== claims: CollectionSpec
FullyProvisioned(coll) == coll.exists /\ coll.indexes = Range(PayloadFields)

\* C19: whenever a call of EnsureCollectionExists returns success, also after
\* calls that failed part-way, the collection exists with an index for each of
\* the four payload fields; and a step of a call on a fully provisioned
\* collection changes neither the collection nor its indexes.
C19_EnsureIsIdempotent ==
    [][/\ \A c \in 1..MaxCalls :
             (collection'.call[c].ret = "ok" /\ collection.call[c].ret # "ok")
                 => FullyProvisioned(collection')
       /\ FullyProvisioned(collection)
             => /\ collection'.exists = collection.exists
                /\ collection'.indexes = collection.indexes]_vars

RunsInFlight(d) ==
    {r \in DOMAIN runs : runs[r].doc.id = d /\ runs[r].pc \notin {"idle", "done"}}

\* C21: at no time are two runs of ProcessDocument for the same document in
\* flight, also when a content update of the document follows its creation or
\* another content update at once.
C21_OneRunPerDocument ==
    \A d \in DocIds : Cardinality(RunsInFlight(d)) <= 1

\* C22: in the step in which DeleteDocument returns success, the document and
\* all its chunk rows are gone from the relational store, and no point with
\* the id of one of the chunk rows the document had is left in the vector
\* index.
C22_DeleteRemovesDocumentAndVectors ==
    [][(deleter'.ret = "ok" /\ deleter.ret # "ok")
          => LET d == deleter.doc
             IN /\ d \notin DOMAIN documents'
                /\ {c \in chunks' : c.document = d} = {}
                /\ PointIds(points') \cap ChunkRowIds(d) = {}]_vars

\* ========================================= claims: SeqSpec, continued
AllDistinct(cs) == \A i, j \in DOMAIN cs : i # j => cs[i].ContentHash # cs[j].ContentHash

\* C23: when a run ends completed, every chunk row of its document stores as
\* index the (zero-based) position at which the row's content stands in the
\* document's current chunk sequence, and when the chunks of the sequence are
\* all distinct no two rows of the document share an index.
C23_IndexIsPosition ==
    [][\A r \in DOMAIN runs :
          (Completed(runs'[r]) /\ ~Completed(runs[r]))
              => LET cs == runs'[r].newChunks
                     rows == {c \in chunks' : c.document = runs'[r].doc.id}
                 IN /\ \A c \in rows :
                          /\ c.index + 1 \in DOMAIN cs
                          /\ cs[c.index + 1].ContentHash = c.content_hash
                    /\ AllDistinct(cs)
                          => \A c1, c2 \in rows : c1.index = c2.index => c1 = c2]_vars

\* ============================================ claims: Spec, continued
FetchFailed(run) == HasOp(run, "fetch", FALSE)

\* C24: the step in which the fetch of a run fails ends the run, leaves the
\* chunk rows, the id sequence and the vector index as they were, comes before
\* any embedding call or store call of the run, and writes the status failed
\* only when the status of the document was processing.
C24_FetchFailureAborts ==
    [][\A r \in RunIds :
          (FetchFailed(runs'[r]) /\ ~FetchFailed(runs[r]))
              => LET d == runs[r].doc.id
                 IN /\ runs'[r].pc = "done"
                    /\ OpNames(runs'[r]) = {"fetch"}
                    /\ chunks' = chunks
                    /\ nextId' = nextId
                    /\ points' = points
                    /\ (d \in DOMAIN documents /\ runs'[r].statusWrites # <<>>)
                          => documents[d].status = "processing"]_vars

\* Every occurrence of an operation of A in the log of the run precedes every
\* occurrence of an operation of B.
AllBefore(run, A, B) ==
    \A i, j \in DOMAIN run.ops : (run.ops[i].op \in A /\ run.ops[j].op \in B) => i < j

\* An acknowledged operation name stands in the log before every operation of B.
AckedBefore(run, name, B) ==
    \A j \in DOMAIN run.ops :
        run.ops[j].op \in B => \E i \in 1..(j - 1) : run.ops[i] = Op(name, TRUE)

EnteredSync(run) == OpNames(run) \cap SyncOps # {}

VectorDeleteFailed(run) == HasOp(run, "vdelete", FALSE)

\* C26: a run whose vector-index delete failed has ended with the single
\* status write failed and has opened no transaction, deleted or inserted no
\* chunk row and issued no upsert or commit; the step in which the delete
\* fails leaves the chunk rows and the vector index as they were and sets the
\* document's status to failed.
C26_VectorDeleteFailureAborts ==
    [][\A r \in RunIds :
          VectorDeleteFailed(runs'[r])
              => /\ runs'[r].pc = "done"
                 /\ runs'[r].statusWrites = <<"failed">>
                 /\ OpNames(runs'[r]) \cap
                       {"txbegin", "rowdelete", "rowinsert", "upsert", "commit", "rollback"} = {}
                 /\ ~runs'[r].txOpen
                 /\ runs'[r].txDel = {} /\ runs'[r].txIns = <<>> /\ runs'[r].upserts = <<>>
                 /\ ~VectorDeleteFailed(runs[r])
                       => /\ chunks' = chunks
                          /\ nextId' = nextId
                          /\ points' = points
                          /\ documents'[runs[r].doc.id].status = "failed"]_vars

C26_Witness ==
    \E r \in RunIds :
        /\ VectorDeleteFailed(runs[r])
        /\ Len(runs[r].toEmbed) > 0
        /\ IdsToDelete(runs[r]) \subseteq PointIds(points) \cap ChunkRowIds(runs[r].doc.id)
        /\ IdsToDelete(runs[r]) # {}
        /\ documents[runs[r].doc.id].status = "failed"

\* ========================================= claims: SeqSpec, the frame
LastOp(run) == run.ops[Len(run.ops)]

RolledBack(run) ==
    /\ Len(run.ops) >= 2
    /\ LastOp(run) = Op("rollback", TRUE)
    /\ run.ops[Len(run.ops) - 1] \in {Op(name, FALSE) : name \in {"rowdelete", "rowinsert", "upsert"}}

\* C27: no step of a run but its successful commit changes the committed
\* chunk rows; a failure of the chunk-row delete, of a chunk-row insert or of
\* the upsert is followed at once by the rollback of the transaction, which
\* drops the pending deletes and inserts, and the committed chunk rows of the
\* document are then the rows the run read at its start.
C27_RowsUnchangedUntilCommit ==
    [][\A r \in DOMAIN runs :
          runs'[r] # runs[r]
              => LET run == runs'[r]
                     failedInTx == run.ops # <<>> /\
                         \E i \in DOMAIN run.ops :
                             run.ops[i] \in {Op(name, FALSE) :
                                                name \in {"rowdelete", "rowinsert", "upsert"}}
                 IN /\ (run.ops = <<>> \/ LastOp(run) # Op("commit", TRUE)) => chunks' = chunks
                    /\ failedInTx
                          => /\ RolledBack(run)
                             /\ ~run.txOpen /\ run.txDel = {} /\ run.txIns = <<>>
                             /\ run.pc = "done"
                             /\ {c \in chunks' : c.document = run.doc.id} = run.prior]_vars

C27_Witness ==
    \E r \in DOMAIN runs :
        /\ RolledBack(runs[r])
        /\ HasOp(runs[r], "upsert", FALSE)
        /\ HasOp(runs[r], "rowdelete", TRUE)
        /\ HasOp(runs[r], "rowinsert", TRUE)
        /\ runs[r].prior # {}
        /\ RowsOf(runs[r].doc.id) = runs[r].prior

\* ============================================ claims: Spec, join key
\* C28: in every run, the i-th row inserted and the i-th point built belong to
\* the i-th to-embed chunk: the row holds that chunk's content and hash and the
\* document's id; the point has the row's generated id as point id and as
\* chunk_id, the owner's id, the project's id and the document's id in its
\* payload, and the embedding of that chunk's content as vector; no two points
\* of the run share an id; and when the upsert is issued there is exactly one
\* point per to-embed chunk.
C28_JoinKey ==
    \A r \in RunIds :
        LET run == runs[r]
        IN /\ Len(run.upserts) <= Len(run.toEmbed)
           /\ run.txOpen => Len(run.txIns) = Len(run.upserts)
           /\ "upsert" \in OpNames(run) \cup {run.pc} => Len(run.upserts) = Len(run.toEmbed)
           /\ \A i, j \in DOMAIN run.upserts : run.upserts[i].id = run.upserts[j].id => i = j
           /\ \A i \in DOMAIN run.upserts :
                 LET p == run.upserts[i]
                 IN /\ p.vector = GetEmbedding(run.toEmbed[i].Content)
                    /\ p.payload = [user_id |-> Owner(documents[run.doc.id].project),
                                    project_id |-> documents[run.doc.id].project,
                                    document_id |-> run.doc.id,
                                    chunk_id |-> p.id]
                    /\ i \in DOMAIN run.txIns
                          => /\ p.id = run.txIns[i].id
                             /\ run.txIns[i].content = run.toEmbed[i].Content
                             /\ run.txIns[i].content_hash = run.toEmbed[i].ContentHash
                             /\ run.txIns[i].document = run.doc.id

C28_Witness ==
    \E r \in RunIds :
        /\ runs[r].pc = "commit"
        /\ HasOp(runs[r], "upsert", TRUE)
        /\ Len(runs[r].toEmbed) = 2
        /\ runs[r].toEmbed[1].Content # runs[r].toEmbed[2].Content
        /\ Len(runs[r].txIns) = 2
        /\ runs[r].txIns[1].id > 1
        /\ Range(runs[r].upserts) \subseteq points

\* ======================================= claims: PoolSpec, continued
JobIndexes == 0..(pool.numJobs - 1)

\* wg.Wait() has returned: every worker has exited.
WorkersDone == pool.pc \in {"collect", "done"} /\ pool.numJobs > 0

\* C29: in a call of embedChunks the embedding function is never called twice
\* for a chunk, and once the workers have exited it has been called, and has
\* returned, exactly once for every chunk of the batch, whichever calls failed
\* and whenever they failed.
C29_OneCallPerChunk ==
    /\ pool.pc # "start"
          => \A i \in JobIndexes : pool.calls[i] <= pool.issued[i] /\ pool.issued[i] <= 1
    /\ WorkersDone
          => \A i \in JobIndexes : pool.issued[i] = 1 /\ pool.calls[i] = 1

C29_Witness ==
    /\ pool.pc = "done"
    /\ pool.numJobs = 2
    /\ pool.failed = {0}
    /\ pool.seen[1] = {0}
    /\ pool.order = <<0, 1>>
    /\ pool.calls[0] = 1
    /\ pool.calls[1] = 1
    /\ pool.ret.err

\* ================================================= claims: LoadSpec
\* The calls of GetEmbedding issued and not yet returned.
CallsInFlight ==
    LET RECURSIVE sum(_)
        sum(i) == IF i < 0 THEN 0 ELSE pool.issued[i] - pool.calls[i] + sum(i - 1)
    IN IF pool.pc = "start" THEN 0 ELSE sum(pool.numJobs - 1)

WorkersStarted == {w \in DOMAIN pool.worker : pool.worker[w].pc # "off"}

ProducerBlocked ==
    /\ pool.pc = "enqueue"
    /\ pool.next < pool.numJobs
    /\ Len(pool.jobs) >= Capacity(pool.numJobs)

WorkerBlockedOnSend(w) ==
    /\ pool.worker[w].pc = "send"
    /\ Len(pool.results) >= Capacity(pool.numJobs)

AllWorkersExited == \A w \in DOMAIN pool.worker : pool.worker[w].pc = "exit"

\* C31: for a batch smaller than, as large as and larger than the number of
\* workers, the producer never finds the job channel full, no worker ever
\* finds the result channel full, and when every embedding call returns every
\* worker exits and embedChunks returns.
C31_PoolDeadlockFree ==
    /\ [](~ProducerBlocked)
    /\ [](\A w \in DOMAIN pool.worker : ~WorkerBlockedOnSend(w))
    /\ <>(pool.pc = "done" /\ AllWorkersExited /\ pool.wg = 0)

\* The larger batch has gone through the pool of ten workers.
C31_Witness ==
    /\ pool.pc = "done"
    /\ pool.numJobs > numWorkers
    /\ AllWorkersExited
    /\ Len(pool.order) = pool.numJobs
    /\ ~pool.ret.err

\* ========================================= claims: PoolSpec, barrier
ResultIndexes == [k \in DOMAIN pool.results |-> pool.results[k].Index]

\* Each index 0..n-1 occurs exactly once in the result channel.
OneResultPerChunk ==
    /\ Len(pool.results) = pool.numJobs
    /\ \A i \in JobIndexes : Cardinality({k \in DOMAIN pool.results : pool.results[k].Index = i}) = 1

\* C32: the orchestrator takes no result from the result channel before every
\* worker has exited, and when it starts to read (wg.Wait has returned and
\* nothing is read yet) the channel holds exactly one result per input chunk,
\* each index 0..n-1 exactly once.
C32_Barrier ==
    [][/\ Len(pool'.results) < Len(pool.results)
             => /\ AllWorkersExited
                /\ pool.wg = 0
                /\ pool.pc = "collect"
       /\ (pool.pc = "wait" /\ pool'.pc = "collect")
             => /\ AllWorkersExited
                /\ OneResultPerChunk'
                /\ pool'.results = pool.results]_vars

\* The reading has started on results that arrived out of order.
C32_Witness ==
    /\ pool.pc = "collect"
    /\ pool.numJobs = 2
    /\ ResultIndexes = <<0>>
    /\ pool.order = <<1, 0>>
    /\ AllWorkersExited

\* ------------------------------------------------------------------ C33
\* The second-level headings of a block sequence.
SplitPositions(nodes) == {i \in 1..Len(nodes) : nodes[i].level = 2}

\* The second-level heading that opened the section of block i, 0 before the
\* first one.
Opener(nodes, i) ==
    LET before == {h \in SplitPositions(nodes) : h <= i}
    IN IF before = {} THEN 0 ELSE CHOOSE h \in before : \A o \in before : o <= h

\* The text of the section opened at g: the spans of its blocks from block i
\* on, in order, each followed by a blank line.
RECURSIVE SectionText(_, _, _)
SectionText(nodes, g, i) ==
    IF i > Len(nodes) THEN <<>>
    ELSE IF Opener(nodes, i) = g /\ nodes[i].span # <<>>
         THEN nodes[i].span \o <<"\n", "\n">> \o SectionText(nodes, g, i + 1)
         ELSE SectionText(nodes, g, i + 1)

SectionLabel(nodes, g) == IF g = 0 THEN <<>> ELSE nodes[g].span

\* The openers whose section has text.
Flushed(nodes) ==
    {g \in {0} \cup SplitPositions(nodes) : SectionText(nodes, g, 1) # <<>>}

\* C33: ChunkMarkdown cuts the top-level blocks at the second-level headings
\* and nowhere else: the sections it flushes are, in order, the non-empty runs
\* of blocks between second-level headings, each run starting with the text of
\* the heading that opened it and labelled with that heading's text (no label
\* before the first), holding the spans of its blocks in order, blocks without
\* a span adding nothing; without a second-level heading all blocks that have
\* text form one section.
C33_StructureAwareSplitting ==
    chunker.pc = "done" /\ "nodes" \in DOMAIN chunker =>
        LET nodes == chunker.nodes
            S == chunker.sections
            F == Flushed(nodes)
        IN /\ Len(S) = Cardinality(F)
           /\ \A g \in F :
                  LET k == Cardinality({h \in F : h <= g})
                  IN S[k] = [text |-> SectionText(nodes, g, 1),
                             headings |-> SectionLabel(nodes, g)]
           /\ (SplitPositions(nodes) = {} /\ (\E i \in 1..Len(nodes) : nodes[i].span # <<>>)
                  => Len(S) = 1 /\ S[1].headings = <<>>)

\* A document with text, a first-level heading and a block without a span
\* before its one second-level heading: two sections, the second labelled
\* with the heading and starting with its text.
C33_Witness ==
    /\ chunker.pc = "done" /\ "nodes" \in DOMAIN chunker
    /\ Len(chunker.nodes) = 4
    /\ chunker.nodes[1] = [level |-> 1, span |-> <<"1">>]
    /\ chunker.nodes[2] = [level |-> 0, span |-> <<>>]
    /\ chunker.nodes[3] = [level |-> 2, span |-> <<"3">>]
    /\ chunker.nodes[4] = [level |-> 0, span |-> <<"4">>]
    /\ chunker.sections = << [text |-> <<"1", "\n", "\n">>, headings |-> <<>>],
                             [text |-> <<"3", "\n", "\n", "4", "\n", "\n">>,
                              headings |-> <<"3">>] >>
    /\ Len(chunker.out) = 2

\* ------------------------------------------------------------------ C34
\* The store calls of a complete provisioning, in order.
ProvisioningOps == <<"get", "create", "user_id", "project_id", "document_id", "chunk_id">>

StoreCalls(c) == [k \in 1..Len(collection.call[c].ops) |-> collection.call[c].ops[k].op]

OpResult(c, k) == collection.call[c].ops[k].res

\* C34: a call of EnsureCollectionExists always starts with the metadata
\* fetch; when the fetch succeeds or fails with an error other than not-found
\* the call makes no further call to the store and returns success or that
\* error; when the fetch reports not-found the call creates the collection and
\* then the indexes of user_id, project_id, document_id and chunk_id in this
\* order, stops at the first call that fails and returns an error, and returns
\* success only after all six calls succeeded.
C34_EnsureErrorPaths ==
    \A c \in 1..MaxCalls :
        LET call == collection.call[c]
            n == Len(call.ops)
        IN /\ n <= Len(ProvisioningOps)
           /\ StoreCalls(c) = SubSeq(ProvisioningOps, 1, n)
           /\ \A k \in 1..(n - 1) : OpResult(c, k) = IF k = 1 THEN "notfound" ELSE "ok"
           /\ call.pc = "done" =>
                 /\ n >= 1
                 /\ call.ret = IF OpResult(c, n) = "ok" THEN "ok" ELSE "err"
                 /\ OpResult(c, 1) = "ok" => n = 1
                 /\ OpResult(c, 1) = "error" => n = 1 /\ call.ret = "err"
                 /\ OpResult(c, 1) = "notfound" =>
                        /\ n >= 2
                        /\ call.ret = "ok" => n = Len(ProvisioningOps)
                        /\ OpResult(c, n) = "ok" => n = Len(ProvisioningOps)

\* One call found nothing and stopped at the failing index of document_id,
\* another failed its fetch, a third found the collection.
C34_Witness ==
    \E a, b, c \in 1..MaxCalls :
        /\ collection.call[a].pc = "done" /\ collection.call[a].ret = "err"
        /\ StoreCalls(a) = <<"get", "create", "user_id", "project_id", "document_id">>
        /\ OpResult(a, 5) = "error"
        /\ collection.call[b].pc = "done" /\ collection.call[b].ops = <<[op |-> "get", res |-> "error"]>>
        /\ collection.call[c].pc = "done" /\ collection.call[c].ops = <<[op |-> "get", res |-> "ok"]>>
        /\ collection.indexes = {"user_id", "project_id"}

\* ------------------------------------------------------------------ C35
\* Call c found the collection missing.
SawNotFound(c) ==
    Len(collection.call[c].ops) >= 1 /\ OpResult(c, 1) = "notfound"

\* The creation of call c was accepted, or rejected because the collection
\* existed.
CreateResult(c) ==
    IF Len(collection.call[c].ops) >= 2 THEN OpResult(c, 2) ELSE "none"

IndexOps(c) == {k \in 1..Len(collection.call[c].ops) : k >= 3}

\* C35: when two calls both found the collection missing and the store
\* accepted the creation of one and rejected the other's because the
\* collection existed, the rejected call returns an error and has made no
\* index call; the accepting call, unless one of its index calls fails,
\* returns success with all four indexes made by itself; and the collection
\* has been created by one call only.
C35_CreationRace ==
    \A w, l \in 1..MaxCalls :
        (/\ w # l
         /\ SawNotFound(w) /\ SawNotFound(l)
         /\ CreateResult(w) = "ok" /\ CreateResult(l) = "exists")
        => /\ collection.call[l].pc = "done"
           /\ collection.call[l].ret = "err"
           /\ IndexOps(l) = {}
           /\ collection.exists
           /\ Cardinality({c \in 1..MaxCalls : CreateResult(c) = "ok"}) = 1
           /\ (collection.call[w].pc = "done" /\ (\A k \in IndexOps(w) : OpResult(w, k) = "ok"))
                 => /\ collection.call[w].ret = "ok"
                    /\ StoreCalls(w) = ProvisioningOps
                    /\ collection.indexes = {"user_id", "project_id", "document_id", "chunk_id"}

\* Both calls have returned: the winner with success after four index calls,
\* the loser with an error after its rejected creation.
C35_Witness ==
    \E w, l \in 1..MaxCalls :
        /\ w # l
        /\ SawNotFound(w) /\ SawNotFound(l)
        /\ CreateResult(w) = "ok" /\ CreateResult(l) = "exists"
        /\ collection.call[w].pc = "done" /\ collection.call[w].ret = "ok"
        /\ collection.call[l].pc = "done" /\ collection.call[l].ret = "err"
        /\ Len(collection.call[w].ops) = 6 /\ Len(collection.call[l].ops) = 2
        /\ collection.indexes = {"user_id", "project_id", "document_id", "chunk_id"}

\* ------------------------------------------------------------------ C36
RowsInserted(run) == HasOp(run, "rowinsert", TRUE)

\* C36: a run calls the embedding pool only when to-embed is non-empty, issues
\* the vector-index delete and the chunk-row delete only when to-delete is
\* non-empty, issues the upsert only after it inserted a chunk row, and opens
\* a transaction only when one of the two sets is non-empty; a run that
\* completed has made each of these calls whenever its condition held.
C36_StepGating ==
    \A r \in RunIds :
        LET run == runs[r]
            made == OpNames(run)
            embeds == Len(run.toEmbed) > 0
            deletes == DOMAIN run.toDelete # {}
        IN /\ "embed" \in made => embeds
           /\ "vdelete" \in made => deletes
           /\ "rowdelete" \in made => deletes
           /\ "upsert" \in made => RowsInserted(run)
           /\ "txbegin" \in made => embeds \/ deletes
           /\ Completed(run) =>
                 /\ embeds => HasOp(run, "embed", TRUE)
                 /\ deletes => HasOp(run, "vdelete", TRUE) /\ HasOp(run, "rowdelete", TRUE)
                 /\ RowsInserted(run) => HasOp(run, "upsert", TRUE)
                 /\ embeds \/ deletes => HasOp(run, "txbegin", TRUE)

\* A run that only inserted (no delete of either kind) and a later run that
\* only deleted (no embedding, no upsert), both completed.
C36_Witness ==
    \E r, q \in RunIds :
        /\ Completed(runs[r]) /\ Completed(runs[q])
        /\ OpNames(runs[q]) = {"fetch", "embed", "txbegin", "rowinsert", "upsert", "commit"}
        /\ OpNames(runs[r]) = {"fetch", "vdelete", "txbegin", "rowdelete", "commit"}

\* ------------------------------------------------------------------ C37
\* Every run that was started has completed, and at least one was.
AllRunsCompleted ==
    /\ \A r \in DOMAIN runs : runs[r].pc = "idle" \/ Completed(runs[r])
    /\ \E r \in DOMAIN runs : Completed(runs[r])

CurrentHashes(d) == Hashes(NewChunks(documents[d].name, documents[d].content))

\* C37: once every content change of a document has been followed by a
\* completed run, the runs one after another, every chunk row of the document
\* has a hash of the chunk sequence of the current content and every point of
\* the document belongs to such a row, also when chunks repeat.
C37_NoStaleRows ==
    AllRunsCompleted =>
        \A d \in DOMAIN documents :
            /\ \A c \in RowsOf(d) : c.content_hash \in CurrentHashes(d)
            /\ \A p \in points :
                   p.payload.document_id = d
                       => \E c \in RowsOf(d) : c.id = p.id /\ c.content_hash \in CurrentHashes(d)

\* ------------------------------------------------------------------ C38
\* Two runs of document d have completed and no other run is in flight.
BothRunsCompleted(d) ==
    /\ Cardinality({r \in RunIds : Completed(runs[r]) /\ runs[r].doc.id = d}) >= 2
    /\ \A r \in RunIds : runs[r].pc \in {"idle", "done"}

\* No chunk text repeats in a chunk sequence any run of d worked on.
NoRepeatedChunks(d) ==
    \A r \in RunIds : runs[r].doc.id = d => AllDistinct(runs[r].newChunks)

\* C38: after two runs of one document have both completed, in whatever way
\* their steps interleaved, the document has one chunk row and one point per
\* chunk of its current content: the hashes of its rows are the hashes of the
\* current chunk sequence, no hash has two rows, and the points of the
\* document are the points of these rows.  Stated for chunk sequences without
\* repeated text.
C38_OverlappingRuns ==
    \A d \in DOMAIN documents :
        BothRunsCompleted(d) /\ NoRepeatedChunks(d) =>
            /\ {c.content_hash : c \in RowsOf(d)} = CurrentHashes(d)
            /\ \A c1, c2 \in RowsOf(d) : c1.content_hash = c2.content_hash => c1 = c2
            /\ {p.id : p \in {q \in points : q.payload.document_id = d}} = ChunkRowIds(d)

\* ------------------------------------------------------------------ C39
\* The last DeleteDocument request deleted document d and its call of
\* DeleteDocumentVectors returned no error.
DeleteSucceeded(d) ==
    /\ deleter.pc = "done" /\ deleter.doc = d
    /\ deleter.ret = "ok" /\ deleter.vret = "ok"

\* The runs of document d have returned, normally or by the panic of the last
\* write, and no call of theirs to a store or to the embedding service failed.
RunsFinished(d) ==
    /\ \A r \in RunIds :
           runs[r].doc.id = d =>
               /\ runs[r].pc \in {"done", "panicked"}
               /\ \A i \in DOMAIN runs[r].ops :
                      runs[r].ops[i].ok \/ runs[r].ops[i].op = "save"
    /\ \E r \in RunIds : runs[r].doc.id = d

\* C39: once a DeleteDocument request for a document has succeeded and the
\* runs of the document have returned, in whatever way the steps of the runs
\* and of the request interleaved and with no call failing, no point carries
\* the document's id and no chunk row of the document is left.
C39_DeleteDuringProcessing ==
    \A d \in DocIds :
        DeleteSucceeded(d) /\ RunsFinished(d) =>
            /\ RowsOf(d) = {}
            /\ \A p \in points : p.payload.document_id # d

====
